---------------------------- MODULE Spec2Model ----------------------------
(***************************************************************************)
(* A model of the Molang engine (fmccl/Molang): the value model            *)
(* (src/src/value.rs), the lexer (src/src/tokeniser/mod.rs), the parser    *)
(* (src/src/parser.rs), the statement splitter (src/src/blockiser.rs) and  *)
(* the evaluator (src/src/interpreter.rs), driven by a host that keeps one *)
(* environment across runs the way the REPL does (src/repl/src/main.rs).   *)
(*                                                                         *)
(* Numbers.  A Number is an f32.  It is modelled as a sign, a numerator    *)
(* and a denominator: d > 0 is the finite value s*n/d in lowest terms      *)
(* (n = 0 is a signed zero), d = 0 with n = 1 is an infinity and d = 0     *)
(* with n = 0 is NaN.  Rounding and overflow of finite results are not     *)
(* modelled; the IEEE rules for zeros, infinities and NaN are.             *)
(***************************************************************************)
EXTENDS Integers, Sequences, FiniteSets, TLC

-----------------------------------------------------------------------------
(* Value: src/src/value.rs *)

Null == [kind |-> "Null"]

RECURSIVE Gcd(_, _)
Gcd(a, b) == IF b = 0 THEN a ELSE Gcd(b, a % b)

Abs(i) == IF i < 0 THEN -i ELSE i
Sign(i) == IF i < 0 THEN -1 ELSE 1

\* The finite f32 s*n/d (d > 0), in lowest terms.
MkNum(s, n, d) ==
    LET g == Gcd(n, d)
    IN  [kind |-> "Number", s |-> s, n |-> n \div g, d |-> d \div g]

Int2Num(i) == MkNum(Sign(i), Abs(i), 1)
NaN == [kind |-> "Number", s |-> 1, n |-> 0, d |-> 0]
Inf(s) == [kind |-> "Number", s |-> s, n |-> 1, d |-> 0]
NegZero == [kind |-> "Number", s |-> -1, n |-> 0, d |-> 1]

IsNaN(x) == x.d = 0 /\ x.n = 0
IsInf(x) == x.d = 0 /\ x.n = 1
IsZero(x) == x.d # 0 /\ x.n = 0

\* f32 negation
fneg(x) == IF IsNaN(x) THEN x ELSE [x EXCEPT !.s = -x.s]

\* f32 `+`
fadd(x, y) ==
    IF IsNaN(x) \/ IsNaN(y) THEN NaN
    ELSE IF IsInf(x) THEN (IF IsInf(y) /\ y.s # x.s THEN NaN ELSE x)
    ELSE IF IsInf(y) THEN y
    ELSE LET num == x.s * x.n * y.d + y.s * y.n * x.d
             den == x.d * y.d
         IN  IF num = 0
             THEN (IF IsZero(x) /\ IsZero(y) /\ x.s = -1 /\ y.s = -1
                   THEN NegZero ELSE Int2Num(0))
             ELSE MkNum(Sign(num), Abs(num), den)

\* f32 `-`
fsub(x, y) == fadd(x, fneg(y))

\* f32 `*`
fmul(x, y) ==
    IF IsNaN(x) \/ IsNaN(y) THEN NaN
    ELSE IF (IsInf(x) /\ IsZero(y)) \/ (IsZero(x) /\ IsInf(y)) THEN NaN
    ELSE IF IsInf(x) \/ IsInf(y) THEN Inf(x.s * y.s)
    ELSE MkNum(x.s * y.s, x.n * y.n, x.d * y.d)

\* f32 `/`
fdiv(x, y) ==
    IF IsNaN(x) \/ IsNaN(y) THEN NaN
    ELSE IF (IsInf(x) /\ IsInf(y)) \/ (IsZero(x) /\ IsZero(y)) THEN NaN
    ELSE IF IsInf(x) \/ IsZero(y) THEN Inf(x.s * y.s)
    ELSE IF IsInf(y) THEN [kind |-> "Number", s |-> x.s * y.s, n |-> 0, d |-> 1]
    ELSE MkNum(x.s * y.s, x.n * y.d, x.d * y.n)

\* f32 `==`: NaN equals nothing, the two zeros are equal
feq(x, y) ==
    IF IsNaN(x) \/ IsNaN(y) THEN FALSE
    ELSE IF IsZero(x) /\ IsZero(y) THEN TRUE
    ELSE x = y

Struct(fields) == [kind |-> "Struct", fields |-> fields]
EmptyStruct == Struct([k \in {} |-> Null])
External(id) == [kind |-> "External", id |-> id]
Function(f) == [kind |-> "Function", f |-> f]

-----------------------------------------------------------------------------
(* Tokens: src/src/tokeniser/mod.rs, operators: src/src/data.rs *)

TNumber(n) == [t |-> "Number", n |-> n]
TOperator(op) == [t |-> "Operator", op |-> op]
TOpenBracket == [t |-> "OpenBracket"]
TCloseBracket == [t |-> "CloseBracket"]
TAccess(accesses) == [t |-> "Access", accesses |-> accesses]
TComma == [t |-> "Comma"]
TSemicolon == [t |-> "Semicolon"]
TBlock(block) == [t |-> "Block", block |-> block]

AName(name) == [a |-> "Name", name |-> name]
AIndex(tokens) == [a |-> "Index", tokens |-> tokens]
ACall(tokens) == [a |-> "Call", tokens |-> tokens]

\* Operator::Return is emitted by the lexer and evaluated as
\* Instruction::Return, but src/src/data.rs gives it no precedence: the
\* value is the design the specification proposes, below every other operator.
precidence_Return == 1

\* Operator::precidence
precidence(op) ==
    CASE op \in {"Add", "Subtract"} -> 11
      [] op \in {"Multiply", "Divide"} -> 12
      [] op = "NullishCoalescing" -> 3
      [] op \in {"Conditional", "Colon", "Assignment"} -> 2
      [] op = "Not" -> 14
      [] op = "Equality" -> 8
      [] op = "Return" -> precidence_Return

-----------------------------------------------------------------------------
(* Parser: src/src/parser.rs *)

Literal(v) == [e |-> "Literal", v |-> v]
Derived(i) == [e |-> "Derived", i |-> i]
Binary(op, l, r) == [op |-> op, l |-> l, r |-> r]
Unary(op, x) == [op |-> op, x |-> x]
IAccess(accesses) == [op |-> "Access", accesses |-> accesses]
EName(name) == [a |-> "Name", name |-> name]
EIndex(idx) == [a |-> "Index", idx |-> idx]
ECall(args) == [a |-> "Call", args |-> args]

POk(expr) == [ok |-> TRUE, expr |-> expr, err |-> "None"]
PErr(err) == [ok |-> FALSE, expr |-> Literal(Null), err |-> err]

\* `[Token::OpenBracket, inner_tokens @ .., Token::CloseBracket]`
strip_brackets(tokens) ==
    IF /\ Len(tokens) >= 2
       /\ tokens[1].t = "OpenBracket"
       /\ tokens[Len(tokens)].t = "CloseBracket"
    THEN SubSeq(tokens, 2, Len(tokens) - 1)
    ELSE tokens

\* A replacement test that lets a later operator of equal precedence win
replaces_lowest_or_equal(tokens, best, i) ==
    \/ best = 0
    \/ precidence(tokens[best].op) >= precidence(tokens[i].op)

\* The replacement test of the scan: the operator at index i replaces the
\* kept one (index best, 0 for none yet).
replaces_lowest(tokens, best, i) ==
    \/ best = 0
    \/ precidence(tokens[best].op) > precidence(tokens[i].op)

\* The scan for the root operator, from token i on; open_brackets is the
\* bracket depth so far and best the index kept so far (0: none).
RECURSIVE lowest_precidence_operator(_, _, _, _)
lowest_precidence_operator(tokens, i, open_brackets, best) ==
    IF i > Len(tokens) THEN best
    ELSE LET token == tokens[i]
         IN  CASE token.t = "OpenBracket" ->
                    lowest_precidence_operator(tokens, i + 1, open_brackets + 1, best)
               [] token.t = "CloseBracket" ->
                    lowest_precidence_operator(tokens, i + 1, open_brackets - 1, best)
               [] token.t = "Operator" /\ open_brackets = 0 ->
                    lowest_precidence_operator(tokens, i + 1, open_brackets,
                        IF replaces_lowest(tokens, best, i) THEN i ELSE best)
               [] OTHER ->
                    lowest_precidence_operator(tokens, i + 1, open_brackets, best)

\* comma_split: the slices between commas, an empty last slice dropped
RECURSIVE comma_split_from(_, _, _, _)
comma_split_from(tokens, i, start, result) ==
    IF i > Len(tokens)
    THEN LET last == SubSeq(tokens, start, Len(tokens))
         IN  IF last # <<>> THEN Append(result, last) ELSE result
    ELSE IF tokens[i].t = "Comma"
         THEN comma_split_from(tokens, i + 1, i + 1,
                               Append(result, SubSeq(tokens, start, i - 1)))
         ELSE comma_split_from(tokens, i + 1, start, result)

comma_split(tokens) == comma_split_from(tokens, 1, 1, <<>>)

\* The instruction a binary operator token builds
binary_instruction(op, left, right) == Binary(op, left, right)

RECURSIVE treeify(_), treeify_args(_, _, _), treeify_accesses(_, _, _)

\* The `Operator::Return` arm of treeify.  src/src/parser.rs has no such arm
\* (its Instruction has no Return), while the lexer emits the operator, the
\* evaluator runs Instruction::Return and the blockiser's test expects
\* `return 1` to parse to Return(Literal 1): a prefix operator like Not.
treeify_return(left, right) ==
    IF left # <<>> THEN PErr("TokensBeforePrefixOperator")
    ELSE LET r == treeify(right)
         IN  IF r.ok THEN POk(Derived(Unary("Return", r.expr))) ELSE r

\* The arguments of one call: each comma-separated slice, in order
treeify_args(args_tokens, i, args) ==
    IF i > Len(args_tokens) THEN [ok |-> TRUE, args |-> args, err |-> "None"]
    ELSE LET r == treeify(args_tokens[i])
         IN  IF r.ok THEN treeify_args(args_tokens, i + 1, Append(args, r.expr))
             ELSE [ok |-> FALSE, args |-> <<>>, err |-> r.err]

\* The steps of one Access token, in order
treeify_accesses(accesses, i, access_exprs) ==
    IF i > Len(accesses) THEN POk(Derived(IAccess(access_exprs)))
    ELSE LET access == accesses[i]
         IN  CASE access.a = "Call" ->
                    LET r == treeify_args(comma_split(access.tokens), 1, <<>>)
                    IN  IF r.ok
                        THEN treeify_accesses(accesses, i + 1,
                                              Append(access_exprs, ECall(r.args)))
                        ELSE PErr(r.err)
               [] access.a = "Name" ->
                    treeify_accesses(accesses, i + 1,
                                     Append(access_exprs, EName(access.name)))
               [] access.a = "Index" ->
                    LET r == treeify(access.tokens)
                    IN  IF r.ok
                        THEN treeify_accesses(accesses, i + 1,
                                              Append(access_exprs, EIndex(r.expr)))
                        ELSE r

treeify(tokens0) ==
    LET tokens == strip_brackets(tokens0)
        i == lowest_precidence_operator(tokens, 1, 0, 0)
    IN  IF i # 0
        THEN LET op == tokens[i].op
                 left == SubSeq(tokens, 1, i - 1)
                 right == SubSeq(tokens, i + 1, Len(tokens))
             IN  CASE op = "Not" ->
                        IF left # <<>> THEN PErr("TokensBeforePrefixOperator")
                        ELSE LET r == treeify(right)
                             IN  IF r.ok THEN POk(Derived(Unary("Not", r.expr)))
                                 ELSE r
                   [] op = "Return" -> treeify_return(left, right)
                   [] OTHER ->
                        LET l == treeify(left)
                        IN  IF ~l.ok THEN l
                            ELSE LET r == treeify(right)
                                 IN  IF ~r.ok THEN r
                                     ELSE POk(Derived(
                                            binary_instruction(op, l.expr, r.expr)))
        ELSE IF Len(tokens) = 1 /\ tokens[1].t = "Number"
             THEN POk(Literal(tokens[1].n))
        ELSE IF Len(tokens) = 1 /\ tokens[1].t = "Access"
             THEN treeify_accesses(tokens[1].accesses, 1, <<>>)
        ELSE PErr("IncompleteExpression")

-----------------------------------------------------------------------------
(* Statement splitter: src/src/blockiser.rs *)

Block(multiple, statements) == [multiple |-> multiple, statements |-> statements]
BOk(block) == [ok |-> TRUE, block |-> block, err |-> "None"]
BErr(err) == [ok |-> FALSE, block |-> Block(FALSE, <<>>), err |-> err]

\* The loop over the tokens: one statement per Semicolon
RECURSIVE blockise_from(_, _, _, _, _), blockise_statement(_, _, _, _, _)
blockise_from(tokens, index, current_start, multiple, statements) ==
    IF index > Len(tokens)
    THEN [ok |-> TRUE, current_start |-> current_start, multiple |-> multiple,
          statements |-> statements, err |-> "None"]
    ELSE IF tokens[index].t = "Semicolon"
         THEN blockise_statement(tokens, index, current_start, statements,
                                 treeify(SubSeq(tokens, current_start, index - 1)))
         ELSE blockise_from(tokens, index + 1, current_start, multiple, statements)

\* `statements.push(treeify(..)?)` at a Semicolon, and on with the loop
blockise_statement(tokens, index, current_start, statements, r) ==
    IF r.ok
    THEN blockise_from(tokens, index + 1, index + 1, TRUE,
                       Append(statements, r.expr))
    ELSE [ok |-> FALSE, current_start |-> current_start,
          multiple |-> TRUE, statements |-> <<>>, err |-> r.err]

\* `statements = vec![treeify(&tokens)?]` when no Semicolon was seen
blockise_single(whole) ==
    IF whole.ok THEN BOk(Block(FALSE, <<whole.expr>>)) ELSE BErr(whole.err)

\* blockise_rest without the statement after the last Semicolon
blockise_rest_without_tail(tokens, loop, rest, tail) ==
    IF ~tail.ok THEN BErr(tail.err)
    ELSE IF ~loop.multiple THEN blockise_single(treeify(tokens))
    ELSE BOk(Block(TRUE, loop.statements))

\* After the loop: the tokens after the last Semicolon are a statement of
\* their own, and a slice without Semicolon is a single block.
blockise_rest(tokens, loop, rest, tail) ==
    IF ~tail.ok THEN BErr(tail.err)
    ELSE IF ~loop.multiple THEN blockise_single(treeify(tokens))
    ELSE BOk(Block(TRUE, IF rest # <<>> THEN Append(loop.statements, tail.expr)
                         ELSE loop.statements))
blockise_tail(rest) == IF rest # <<>> THEN treeify(rest) ELSE POk(Literal(Null))
blockise_looped(tokens, loop) ==
    IF ~loop.ok THEN BErr(loop.err)
    ELSE blockise_rest(tokens, loop,
                       SubSeq(tokens, loop.current_start, Len(tokens)),
                       blockise_tail(SubSeq(tokens, loop.current_start, Len(tokens))))

blockise(tokens) == blockise_looped(tokens, blockise_from(tokens, 1, 1, FALSE, <<>>))

-----------------------------------------------------------------------------
(* Lexer: src/src/tokeniser/mod.rs, src/src/state.rs.  A source text is a  *)
(* string; a character is a string of length one, and the end of input     *)
(* (`None`) is the empty string.                                           *)

EOF == ""
Digits == {"0", "1", "2", "3", "4", "5", "6", "7", "8", "9"}
Letters == {"a", "b", "c", "d", "e", "f", "g", "h", "i", "j", "k", "l", "m",
            "n", "o", "p", "q", "r", "s", "t", "u", "v", "w", "x", "y", "z",
            "A", "B", "C", "D", "E", "F", "G", "H", "I", "J", "K", "L", "M",
            "N", "O", "P", "Q", "R", "S", "T", "U", "V", "W", "X", "Y", "Z"}
\* char::is_numeric holds of every character of the Unicode categories Nd,
\* Nl and No: the decimal digits and, standing for the numeric characters
\* that are no decimal digit, superscript two
Numerics == Digits \cup {"²"}
is_numeric(c) == c \in Numerics
is_alphabetic(c) == c \in Letters
is_alphanumeric(c) == is_alphabetic(c) \/ is_numeric(c)
is_whitespace(c) == c \in {" ", "\t", "\n", "\r"}

\* `input.chars().nth(i)`, with i counted from 1
nth(input, i) == IF i <= Len(input) THEN SubSeq(input, i, i) ELSE EOF

DigitValue(c) ==
    CASE c = "0" -> 0 [] c = "1" -> 1 [] c = "2" -> 2 [] c = "3" -> 3
      [] c = "4" -> 4 [] c = "5" -> 5 [] c = "6" -> 6 [] c = "7" -> 7
      [] c = "8" -> 8 [] c = "9" -> 9

\* `str::parse::<f32>` on the digits and the point a NumberState collected:
\* num is the digits read so far as one integer, den the power of ten that
\* the digits after the point divide it by.
RECURSIVE parse_from(_, _, _, _, _)
parse_from(string, i, num, den, point) ==
    IF i > Len(string) THEN MkNum(1, num, den)
    ELSE LET c == SubSeq(string, i, i)
         IN  IF c = "." THEN parse_from(string, i + 1, num, den, TRUE)
             ELSE parse_from(string, i + 1, num * 10 + DigitValue(c),
                             IF point THEN den * 10 ELSE den, point)

parse(string) == parse_from(string, 1, 0, 1, FALSE)

\* Whether `str::parse::<f32>` returns Ok on what a NumberState collected:
\* decimal digits with at most one point
parses(string) ==
    \A i \in 1..Len(string) : SubSeq(string, i, i) \in Digits \cup {"."}

NoToken == [t |-> "None"]
NoState == [s |-> "None"]
NoAccess == [a |-> "None"]

\* What State::handle returns: Ok((token, new state, action)) or Err
HOk(token, state, action) ==
    [tag |-> "Ok", token |-> token, state |-> state, action |-> action,
     found |-> "", expected |-> ""]
HErr(found, expected) ==
    [tag |-> "Err", token |-> NoToken, state |-> NoState, action |-> "Done",
     found |-> found, expected |-> expected]
\* a panic inside handle (`unwrap` on an Err)
HPanic ==
    [tag |-> "Panic", token |-> NoToken, state |-> NoState, action |-> "Done",
     found |-> "", expected |-> ""]

NormalState == [s |-> "Normal"]
NumberState(point, string) == [s |-> "Number", point |-> point, string |-> string]
BlockState(chars, open) == [s |-> "Block", chars |-> chars, open |-> open]
AccessTokenState(state, accesses) ==
    [s |-> "AccessToken", state |-> state, accesses |-> accesses]
AccessState == [s |-> "Access"]
IdentifierState(identifier) == [s |-> "Identifier", identifier |-> identifier]
BracketState(call, inner, open_brackets) ==
    [s |-> "Bracket", call |-> call, inner |-> inner,
     open_brackets |-> open_brackets]
DoubleState(target, result_single, result_double) ==
    [s |-> "Double", target |-> target, result_single |-> result_single,
     result_double |-> result_double]

\* What tokenise returns
TOk(tokens) == [tag |-> "Ok", tokens |-> tokens, found |-> "", expected |-> ""]
TErr(found, expected) ==
    [tag |-> "Err", tokens |-> <<>>, found |-> found, expected |-> expected]
TPanic == [tag |-> "Panic", tokens |-> <<>>, found |-> "", expected |-> ""]

RECURSIVE tokenise(_)

\* NormalState::handle that passes over a character it does not accept
NormalState_handle_skipping(c) ==
    CASE c = EOF -> HOk(NoToken, NoState, "Done")
      [] is_numeric(c) -> HOk(NoToken, NumberState(FALSE, ""), "Hold")
      [] is_alphabetic(c) ->
            HOk(NoToken, AccessTokenState(IdentifierState(""), <<>>), "Hold")
      [] is_whitespace(c) -> HOk(NoToken, NoState, "Advance")
      [] c = "," -> HOk(TComma, NoState, "Advance")
      [] c = "*" -> HOk(TOperator("Multiply"), NoState, "Advance")
      [] c = "/" -> HOk(TOperator("Divide"), NoState, "Advance")
      [] c = "+" -> HOk(TOperator("Add"), NoState, "Advance")
      [] c = ":" -> HOk(TOperator("Colon"), NoState, "Advance")
      [] c = "-" -> HOk(TOperator("Subtract"), NoState, "Advance")
      [] c = "!" -> HOk(TOperator("Not"), NoState, "Advance")
      [] c = ";" -> HOk(TSemicolon, NoState, "Advance")
      [] c = "(" -> HOk(TOpenBracket, NoState, "Advance")
      [] c = ")" -> HOk(TCloseBracket, NoState, "Advance")
      [] c = "?" ->
            HOk(NoToken,
                DoubleState("?", TOperator("Conditional"),
                            TOperator("NullishCoalescing")),
                "Advance")
      [] c = "=" ->
            HOk(NoToken,
                DoubleState("=", TOperator("Assignment"), TOperator("Equality")),
                "Advance")
      [] c = "{" -> HOk(NoToken, BlockState("", 0), "Advance")
      [] OTHER -> HOk(NoToken, NoState, "Advance")

\* `NormalState::handle`: the characters a token may start with
NormalState_handle(c) ==
    CASE c = EOF -> HOk(NoToken, NoState, "Done")
      [] is_numeric(c) -> HOk(NoToken, NumberState(FALSE, ""), "Hold")
      [] is_alphabetic(c) ->
            HOk(NoToken, AccessTokenState(IdentifierState(""), <<>>), "Hold")
      [] is_whitespace(c) -> HOk(NoToken, NoState, "Advance")
      [] c = "," -> HOk(TComma, NoState, "Advance")
      [] c = "*" -> HOk(TOperator("Multiply"), NoState, "Advance")
      [] c = "/" -> HOk(TOperator("Divide"), NoState, "Advance")
      [] c = "+" -> HOk(TOperator("Add"), NoState, "Advance")
      [] c = ":" -> HOk(TOperator("Colon"), NoState, "Advance")
      [] c = "-" -> HOk(TOperator("Subtract"), NoState, "Advance")
      [] c = "!" -> HOk(TOperator("Not"), NoState, "Advance")
      [] c = ";" -> HOk(TSemicolon, NoState, "Advance")
      [] c = "(" -> HOk(TOpenBracket, NoState, "Advance")
      [] c = ")" -> HOk(TCloseBracket, NoState, "Advance")
      [] c = "?" ->
            HOk(NoToken,
                DoubleState("?", TOperator("Conditional"),
                            TOperator("NullishCoalescing")),
                "Advance")
      [] c = "=" ->
            HOk(NoToken,
                DoubleState("=", TOperator("Assignment"), TOperator("Equality")),
                "Advance")
      [] c = "{" -> HOk(NoToken, BlockState("", 0), "Advance")
      [] OTHER -> HErr(c, "anything else")

\* `Token::Number(self.string.parse().unwrap())`
NumberState_parsed(string, state, action) ==
    IF parses(string) THEN HOk(TNumber(parse(string)), state, action)
    ELSE HPanic

\* NumberState::handle for which an underscore ends the literal
NumberState_handle_without_separator(self, c) ==
    CASE c # EOF /\ is_numeric(c) ->
            HOk(NoToken, NumberState(self.point, self.string \o c), "Advance")
      [] c = "." ->
            IF self.point THEN HErr(".", "a digit")
            ELSE HOk(NoToken, NumberState(TRUE, self.string \o "."), "Advance")
      [] c = EOF -> NumberState_parsed(self.string, NoState, "Done")
      [] OTHER -> NumberState_parsed(self.string, NormalState, "Hold")

NumberState_handle(self, c) ==
    CASE c # EOF /\ is_numeric(c) ->
            HOk(NoToken, NumberState(self.point, self.string \o c), "Advance")
      [] c = "." ->
            IF self.point THEN HErr(".", "a digit")
            ELSE HOk(NoToken, NumberState(TRUE, self.string \o "."), "Advance")
      [] c = "_" -> HOk(NoToken, NoState, "Advance")
      [] c = EOF -> NumberState_parsed(self.string, NoState, "Done")
      [] OTHER -> NumberState_parsed(self.string, NormalState, "Hold")

\* `Token::Block(blockise(tokenise(&self.chars)?).unwrap())`
BlockState_blockised(block) ==
    IF block.ok THEN HOk(TBlock(block.block), NormalState, "Advance") ELSE HPanic
BlockState_tokenised(tokens) ==
    CASE tokens.tag = "Err" -> HErr(tokens.found, tokens.expected)
      [] tokens.tag = "Panic" -> HPanic
      [] OTHER -> BlockState_blockised(blockise(tokens.tokens))

BlockState_handle(self, c) ==
    CASE c = "}" /\ self.open = 0 -> BlockState_tokenised(tokenise(self.chars))
      [] c = "}" ->
            HOk(NoToken, BlockState(self.chars \o "}", self.open - 1), "Advance")
      [] c = "{" ->
            HOk(NoToken, BlockState(self.chars \o "{", self.open + 1), "Advance")
      [] c = EOF -> HErr("EOF", "}")
      [] OTHER -> HOk(NoToken, BlockState(self.chars \o c, self.open), "Advance")

AccessState_handle(c) ==
    CASE c # EOF /\ is_whitespace(c) -> HOk(NoAccess, NoState, "Advance")
      [] c = "." -> HOk(NoAccess, IdentifierState(""), "Advance")
      [] c = "(" -> HOk(NoAccess, BracketState(TRUE, "", 0), "Advance")
      [] c = "[" -> HOk(NoAccess, BracketState(FALSE, "", 0), "Advance")
      [] OTHER -> HOk(NoAccess, NoState, "Done")

IdentifierState_handle(self, c) ==
    IF c # EOF /\ (is_alphanumeric(c) \/ c = "_")
    THEN HOk(NoAccess, IdentifierState(self.identifier \o c), "Advance")
    ELSE HOk(AName(self.identifier), AccessState, "Hold")

\* `Access::Call(tokenise(&self.inner)?)` or `Access::Index(..)`
BracketState_tokenised(self, tokens) ==
    CASE tokens.tag = "Err" -> HErr(tokens.found, tokens.expected)
      [] tokens.tag = "Panic" -> HPanic
      [] OTHER -> HOk(IF self.call THEN ACall(tokens.tokens)
                      ELSE AIndex(tokens.tokens),
                      AccessState, "Advance")

\* BracketState::handle that closes at the first closing bracket
BracketState_handle_unbalanced(self, c) ==
    LET open == IF self.call THEN "(" ELSE "["
        close == IF self.call THEN ")" ELSE "]"
    IN  CASE c = close -> BracketState_tokenised(self, tokenise(self.inner))
          [] c = EOF -> HErr("EOF", ")")
          [] OTHER ->
                HOk(NoAccess,
                    BracketState(self.call, self.inner \o c, self.open_brackets),
                    "Advance")

BracketState_handle(self, c) ==
    LET open == IF self.call THEN "(" ELSE "["
        close == IF self.call THEN ")" ELSE "]"
    IN  CASE c = open ->
                HOk(NoAccess,
                    BracketState(self.call, self.inner \o c, self.open_brackets + 1),
                    "Advance")
          [] c = close /\ self.open_brackets # 0 ->
                HOk(NoAccess,
                    BracketState(self.call, self.inner \o c, self.open_brackets - 1),
                    "Advance")
          [] c = close /\ self.open_brackets = 0 ->
                BracketState_tokenised(self, tokenise(self.inner))
          [] c = EOF -> HErr("EOF", ")")
          [] OTHER ->
                HOk(NoAccess,
                    BracketState(self.call, self.inner \o c, self.open_brackets),
                    "Advance")

\* The handle of the state an AccessTokenState wraps
inner_handle(state, c) ==
    CASE state.s = "Identifier" -> IdentifierState_handle(state, c)
      [] state.s = "Access" -> AccessState_handle(c)
      [] state.s = "Bracket" -> BracketState_handle(state, c)

\* A test that never sees the return keyword
is_return_never(accesses) == FALSE

\* The test that turns a finished access chain into the return operator
is_return(accesses) == accesses[1] = AName("return")

\* What AccessTokenState does with r, the answer of the state it wraps
AccessTokenState_handled(self, r) ==
    IF r.tag # "Ok" THEN r
    ELSE LET accesses == IF r.token.a # "None"
                         THEN Append(self.accesses, r.token)
                         ELSE self.accesses
             state == IF r.state.s # "None" THEN r.state ELSE self.state
         IN  CASE r.action = "Done" ->
                    IF is_return(accesses)
                    THEN HOk(TOperator("Return"), NormalState, "Hold")
                    ELSE HOk(TAccess(accesses), NormalState, "Hold")
               [] r.action = "Advance" ->
                    HOk(NoToken, AccessTokenState(state, accesses), "Advance")
               [] r.action = "Hold" ->
                    HOk(NoToken, AccessTokenState(state, accesses), "Hold")

AccessTokenState_handle(self, c) ==
    AccessTokenState_handled(self, inner_handle(self.state, c))

\* DoubleState::handle that consumes the character it peeked at
DoubleState_handle_advancing(self, c) ==
    IF c = self.target
    THEN HOk(self.result_double, NormalState, "Advance")
    ELSE HOk(self.result_single, NormalState, "Advance")

DoubleState_handle(self, c) ==
    IF c = self.target
    THEN HOk(self.result_double, NormalState, "Advance")
    ELSE HOk(self.result_single, NormalState, "Hold")

\* `state.handle(c)`: the dynamic dispatch on the boxed state
handle(state, c) ==
    CASE state.s = "Normal" -> NormalState_handle(c)
      [] state.s = "Number" -> NumberState_handle(state, c)
      [] state.s = "Block" -> BlockState_handle(state, c)
      [] state.s = "AccessToken" -> AccessTokenState_handle(state, c)
      [] state.s = "Double" -> DoubleState_handle(state, c)

\* A loop that never moves on
advance_never(i, action) == i
\* What the loop of tokenise does with the position after one handle
advance(i, action) == IF action = "Advance" THEN i + 1 ELSE i

\* One turn of the loop of tokenise.  A configuration holds the position,
\* the state and the tokens so far; res is "Run" while the loop is running.
LoopCfg(res, i, state, tokens, found, expected) ==
    [res |-> res, i |-> i, state |-> state, tokens |-> tokens,
     found |-> found, expected |-> expected]
tokenise_handled(cfg, r) ==
         LET new_state == IF r.tag = "Ok" /\ r.state.s # "None" THEN r.state
                          ELSE cfg.state
             new_tokens == IF r.tag = "Ok" /\ r.token.t # "None"
                           THEN Append(cfg.tokens, r.token) ELSE cfg.tokens
         IN  CASE r.tag = "Err" ->
                    LoopCfg("Err", cfg.i, cfg.state, cfg.tokens, r.found, r.expected)
               [] r.tag = "Panic" ->
                    LoopCfg("Panic", cfg.i, cfg.state, cfg.tokens, "", "")
               [] r.tag = "Ok" /\ r.action = "Done" ->
                    LoopCfg("Ok", cfg.i, new_state, new_tokens, "", "")
               [] OTHER ->
                    LoopCfg("Run", advance(cfg.i, r.action), new_state,
                            new_tokens, "", "")
tokenise_step(input, cfg) ==
    IF cfg.res # "Run" THEN cfg
    ELSE tokenise_handled(cfg, handle(cfg.state, nth(input, cfg.i)))

\* The loop of tokenise: n turns from cfg.  The turns are taken in two halves
\* so that the evaluation nests to the logarithm of n.
RECURSIVE tokenise_loop(_, _, _)
tokenise_loop(input, cfg, n) ==
    IF n = 0 \/ cfg.res # "Run" THEN cfg
    ELSE IF n = 1 THEN tokenise_step(input, cfg)
    ELSE tokenise_loop(input, tokenise_loop(input, cfg, n \div 2), n - n \div 2)

\* Every turn either advances or changes state on a held character, and no
\* state holds the same character more than three times.
tokenise_turns(input) == 4 * (Len(input) + 2)

tokenise_result(end) ==
    CASE end.res = "Ok" -> TOk(end.tokens)
      [] end.res = "Err" -> TErr(end.found, end.expected)
      [] OTHER -> TPanic
tokenise(input) ==
    tokenise_result(tokenise_loop(input,
                                  LoopCfg("Run", 1, NormalState, <<>>, "", ""),
                                  tokenise_turns(input)))

-----------------------------------------------------------------------------
(* compile: src/src/lib.rs *)

COk(block) == [tag |-> "Ok", block |-> block, err |-> "None", found |-> "",
               expected |-> ""]
CErr(err, found, expected) ==
    [tag |-> "Err", block |-> Block(FALSE, <<>>), err |-> err, found |-> found,
     expected |-> expected]
CPanic == [tag |-> "Panic", block |-> Block(FALSE, <<>>), err |-> "None",
           found |-> "", expected |-> ""]

\* `Ok(blockise(..)?)`
compile_blockised(block) ==
    IF block.ok THEN COk(block.block) ELSE CErr(block.err, "", "")
\* `tokenise(expr)?`
compile_tokenised(tokens) ==
    CASE tokens.tag = "Err" -> CErr("TokeniseError", tokens.found, tokens.expected)
      [] tokens.tag = "Panic" -> CPanic
      [] OTHER -> compile_blockised(blockise(tokens.tokens))

compile(expr) == compile_tokenised(tokenise(expr))

-----------------------------------------------------------------------------
(* Value equality and the host objects.                                    *)
(* src/src/value.rs; the Vector object and the `array` function of         *)
(* src/repl/src/main.rs; the `max` function of the evaluator's tests.      *)

\* HashMap::get / insert on the fields of a Struct
has_key(fields, name) == name \in DOMAIN fields
\* A lookup that answers an empty Struct for a key that is not there
map_get_or_default(fields, name) ==
    IF has_key(fields, name) THEN fields[name] ELSE EmptyStruct
map_get(fields, name) == IF has_key(fields, name) THEN fields[name] ELSE Null
map_insert(fields, name, value) ==
    [k \in DOMAIN fields \cup {name} |-> IF k = name THEN value ELSE fields[k]]

\* `impl PartialEq for Function`: std::ptr::eq on the two Function values
\* themselves.  The evaluator only ever compares two distinct values (two
\* results, or the entries of two maps), whose addresses differ.
Function_eq(f, rhs) == FALSE

\* `impl MolangEq for Vector`: the address of the object behind the handle
Vector_molang_eq(id, rhs) == rhs.kind = "External" /\ rhs.id = id

RECURSIVE molang_eq(_, _)
molang_eq(self, rhs) ==
    CASE self.kind = "Number" -> rhs.kind = "Number" /\ feq(rhs, self)
      [] self.kind = "Struct" ->
            /\ rhs.kind = "Struct"
            /\ DOMAIN self.fields = DOMAIN rhs.fields
            /\ \A k \in DOMAIN self.fields :
                    molang_eq(self.fields[k], rhs.fields[k])
      [] self.kind = "External" ->
            rhs.kind = "External" /\ Vector_molang_eq(self.id, rhs)
      [] self.kind = "Function" -> rhs.kind = "Function" /\ Function_eq(self, rhs)
      [] self.kind = "Null" -> rhs.kind = "Null"

\* The External objects molang_eq borrows (`e.borrow()`) on its way
RECURSIVE eq_borrows(_, _)
eq_borrows(self, rhs) ==
    CASE self.kind = "External" ->
            IF rhs.kind = "External" THEN {self.id} ELSE {}
      [] self.kind = "Struct" /\ rhs.kind = "Struct"
            /\ DOMAIN self.fields = DOMAIN rhs.fields ->
            UNION {eq_borrows(self.fields[k], rhs.fields[k]) : k \in DOMAIN self.fields}
      [] OTHER -> {}

\* MolangError
NoErr == [kind |-> "None", name |-> "", val |-> Null]
MolangError(kind, name, val) == [kind |-> kind, name |-> name, val |-> val]

\* What a host call returns: the heap after it and Ok(value) or Err(error)
HostOk(heap, v) == [heap |-> heap, ok |-> TRUE, v |-> v, err |-> NoErr]
HostErr(heap, err) == [heap |-> heap, ok |-> FALSE, v |-> Null, err |-> err]

\* f32 `>`
fgt(x, y) ==
    IF IsNaN(x) \/ IsNaN(y) THEN FALSE
    ELSE IF IsInf(x) THEN x.s = 1 /\ ~(IsInf(y) /\ y.s = 1)
    ELSE IF IsInf(y) THEN y.s = -1
    ELSE x.s * x.n * y.d > y.s * y.n * x.d

\* The closure of the evaluator's test `function`: the biggest argument
RECURSIVE max_from(_, _, _, _)
max_from(heap, args, i, biggest) ==
    IF i > Len(args)
    THEN IF biggest.kind = "Null"
         THEN HostErr(heap, MolangError("FunctionError",
                                        "No arguments passed to max", Null))
         ELSE HostOk(heap, biggest)
    ELSE IF args[i].kind # "Number"
         THEN HostErr(heap, MolangError("FunctionError", "Expected a number", Null))
         ELSE max_from(heap, args, i + 1,
                       IF biggest.kind = "Null" \/ fgt(args[i], biggest)
                       THEN args[i] ELSE biggest)

\* The closure bound to `array` in the REPL: a new Vector holding the arguments
array(heap, args) ==
    HostOk(Append(heap, [vec |-> args]), External(Len(heap) + 1))

\* `(function.f.borrow_mut())(v_args)`
call_host(function, heap, args) ==
    CASE function.f = "array" -> array(heap, args)
      [] function.f = "max" -> max_from(heap, args, 1, Null)

\* Vector::get
Vector_get(heap, id, property) ==
    IF property = "length" THEN Int2Num(Len(heap[id].vec)) ELSE Null

\* A push that lands in a copy of the object
Vector_call_function_on_copy(heap, id, function, args) ==
    IF function = "push"
    THEN HostOk(heap, Null)
    ELSE HostErr(heap, MolangError("FunctionNotFound", function, Null))

\* Vector::call_function
Vector_call_function(heap, id, function, args) ==
    IF function = "push"
    THEN HostOk([heap EXCEPT ![id].vec = @ \o args], Null)
    ELSE HostErr(heap, MolangError("FunctionNotFound", function, Null))

\* can_convert_f32_to_usize
can_convert_f32_to_usize(x) == x.d = 1 /\ (x.s = 1 \/ x.n = 0)

\* Vector::index_get
Vector_index_get(heap, id, index) ==
    IF index.kind = "Number" /\ can_convert_f32_to_usize(index)
    THEN HostOk(heap, IF index.n + 1 <= Len(heap[id].vec)
                      THEN heap[id].vec[index.n + 1] ELSE Null)
    ELSE HostErr(heap, MolangError("BadAccess", "Index", index))

-----------------------------------------------------------------------------
(* Evaluator: src/src/interpreter.rs.                                      *)
(*                                                                         *)
(* env is what a run only reads: [constants, aliases], and ub, the outcome *)
(* this build gives a store through a dangling pointer.  st is what a run  *)
(* may change: variables, the heap of External objects (heap[id] is the    *)
(* object behind the handles External(id)), the objects whose RefCell is   *)
(* mutably borrowed, and two logs kept for the properties: the host calls  *)
(* made (calls) and the changes made to variables (events).                *)

\* Outcomes of a store through a dangling pointer: the store lands where the
\* pointer used to point, is lost, or the process aborts.
UBOutcomes == {"lands", "lost", "abort"}

ROk(st, v, ret) == [tag |-> "Ok", st |-> st, v |-> v, ret |-> ret, err |-> NoErr]
RErr(st, err) == [tag |-> "Err", st |-> st, v |-> Null, ret |-> FALSE, err |-> err]
RPanic(st) == [tag |-> "Panic", st |-> st, v |-> Null, ret |-> FALSE, err |-> NoErr]

\* A macro that lets a flagged value through as an operand
run_bubble_errors_only(r) == r.tag # "Ok"

\* run_bubble_returns!: the enclosing run_expr returns r at once when r is an
\* error (`?`) or carries the early-return flag
run_bubble_returns(r) == r.tag # "Ok" \/ r.ret

\* A lookup that never consults the alias table
resolve_alias_never(aliases, name) == name

\* `aliases.get(name)`, else the name itself
resolve_alias(aliases, name) ==
    IF name \in DOMAIN aliases THEN aliases[name] ELSE name

\* A lookup that takes a name bound nowhere for Null
root_lookup_or_null(constants, variables, name) ==
    IF name \in DOMAIN constants THEN [some |-> TRUE, v |-> constants[name]]
    ELSE IF name \in DOMAIN variables THEN [some |-> TRUE, v |-> variables[name]]
    ELSE [some |-> TRUE, v |-> Null]

\* `constants.get(name).or(variables.get(name))`
root_lookup(constants, variables, name) ==
    IF name \in DOMAIN constants THEN [some |-> TRUE, v |-> constants[name]]
    ELSE IF name \in DOMAIN variables THEN [some |-> TRUE, v |-> variables[name]]
    ELSE [some |-> FALSE, v |-> Null]

\* The arithmetic with its operands taken in the wrong order
arithmetic_reversed(op, left, right) ==
    CASE op = "Add" -> fadd(right, left)
      [] op = "Subtract" -> fsub(right, left)
      [] op = "Multiply" -> fmul(right, left)
      [] op = "Divide" -> fdiv(right, left)

\* The arithmetic of the four binary instructions
arithmetic(op, left, right) ==
    CASE op = "Add" -> fadd(left, right)
      [] op = "Subtract" -> fsub(left, right)
      [] op = "Multiply" -> fmul(left, right)
      [] op = "Divide" -> fdiv(left, right)

\* A logical-not that takes a negative number for false
not_number_signed(n) ==
    IF feq(n, Int2Num(0)) \/ n.s = -1 THEN Int2Num(1) ELSE Int2Num(0)

\* Instruction::Not on a number
not_number(n) == IF feq(n, Int2Num(0)) THEN Int2Num(1) ELSE Int2Num(0)

\* `bool.into()` of Instruction::Eqaulity
bool_into(b) == IF b THEN Int2Num(1) ELSE Int2Num(0)

\* A test that takes the number zero for Null as well
is_null_or_zero(left) ==
    left.kind = "Null" \/ (left.kind = "Number" /\ feq(left, Int2Num(0)))

\* The `Value::Null` arm of Instruction::NullishCoalescing: the right side
\* runs
is_null(left) == left.kind = "Null"

\* A test of the condition that takes a negative number for false
takes_if_positive(left) == left.s = 1 /\ ~feq(left, Int2Num(0))

\* The branch Instruction::Conditional runs: TRUE for if_true
takes_if_true(left) == ~feq(left, Int2Num(0))

TypeError(st, a) == RErr(st, MolangError("TypeError", "Number", a))
\* An access the value does not support read as Null
BadAccess_forgiven(st, how, current) == ROk(st, Null, FALSE)
BadAccess(st, how, current) == RErr(st, MolangError("BadAccess", how, current))

NoExternal == [some |-> FALSE, id |-> 0, name |-> ""]
SomeExternal(id, name) == [some |-> TRUE, id |-> id, name |-> name]

log_call(st, f, recv, args) ==
    [st EXCEPT !.calls = Append(@, [f |-> f, recv |-> recv, args |-> args])]
log_event(st, ev, path) ==
    [st EXCEPT !.events = Append(@, [ev |-> ev, path |-> path, len |-> 0])]
\* `struc.insert(..)` into the table at path, which held len entries
log_insert(st, path, len) ==
    [st EXCEPT !.events = Append(@, [ev |-> "insert", path |-> path, len |-> len])]

\* Whether an insert into a HashMap of len entries allocates a new table and
\* frees the old one: a table of 4, 8, 16 or 32 buckets is full at 3, 7, 14
\* or 28 entries (an empty map has no table yet)
hashbrown_resizes(len) == len \in {0, 3, 7, 14, 28}

\* The value a path of keys leads to inside value v (every step is a key of
\* a Struct), and v with the value at that path replaced
RECURSIVE get_path(_, _, _), set_path(_, _, _, _)
get_path(v, keys, i) ==
    IF i > Len(keys) THEN v ELSE get_path(v.fields[keys[i]], keys, i + 1)
set_path(v, keys, i, new) ==
    IF i > Len(keys) THEN new
    ELSE Struct(map_insert(v.fields, keys[i],
                           set_path(map_get(v.fields, keys[i]), keys, i + 1, new)))

\* `current: *mut Value`.  It points to the temporary Null it starts at, into
\* variables (the root name and the keys below it), or to a temporary that the
\* statement creating it has already dropped (v is what was there).
PInit == [p |-> "init", root |-> "", keys |-> <<>>, v |-> Null]
PPath(root, keys) == [p |-> "path", root |-> root, keys |-> keys, v |-> Null]
PTemp(v) == [p |-> "temp", root |-> "", keys |-> <<>>, v |-> v]

\* `*current`
deref(current, variables) ==
    CASE current.p = "init" -> Null
      [] current.p = "path" -> get_path(variables[current.root], current.keys, 1)
      [] current.p = "temp" -> current.v

IsPrefix(p, q) == Len(p) <= Len(q) /\ SubSeq(q, 1, Len(p)) = p

\* Whether the changes to variables logged after position n took away the
\* memory current points to: a value above it was overwritten (its table is
\* freed), or a key was inserted into the table that holds it while that
\* table was full (the entries moved to a new table).
dangles(current, events, n) ==
    /\ current.p = "path"
    /\ \E j \in (n + 1)..Len(events) :
          LET ev == events[j]
              target == <<current.root>> \o current.keys
          IN  \/ ev.ev = "store" /\ IsPrefix(ev.path, target) /\ ev.path # target
              \/ ev.ev = "insert" /\ Len(target) >= 2
                    /\ ev.path = SubSeq(target, 1, Len(target) - 1)
                    /\ hashbrown_resizes(ev.len)

\* `*current = value`
store(st, current, value) ==
    IF current.p = "path"
    THEN log_event(
            [st EXCEPT !.variables[current.root] =
                            set_path(@, current.keys, 1, value)],
            "store", <<current.root>> \o current.keys)
    ELSE st

\* A test that takes any instruction for the two branches
is_derived(right) == right.e # "Literal"

\* `Expr::Derived(b)` with `Instruction::Colon(left, right)`: the right side
\* of a Conditional holds the two branches
is_colon(right) == right.e # "Literal" /\ right.i.op = "Colon"

RECURSIVE run_expr(_, _, _), run_args(_, _, _, _, _),
          run_args_right_to_left(_, _, _, _, _),
          access_loop(_, _, _, _, _, _), assign_loop(_, _, _, _, _)

\* Arguments evaluated from the last to the first
run_args_right_to_left(args, i, v_args, env, st) ==
    IF i > Len(args) THEN ROk(st, v_args, FALSE)
    ELSE LET r == run_expr(args[Len(args) + 1 - i], env, st)
         IN  IF run_bubble_returns(r) THEN r
             ELSE run_args_right_to_left(args, i + 1, <<r.v>> \o v_args, env, r.st)

\* `for arg in args { v_args.push(run_bubble_returns!(arg, ...)) }`: v holds
\* the values when every argument ran to a value
run_args(args, i, v_args, env, st) ==
    IF i > Len(args) THEN ROk(st, v_args, FALSE)
    ELSE LET r == run_expr(args[i], env, st)
         IN  IF run_bubble_returns(r) THEN r
             ELSE run_args(args, i + 1, Append(v_args, r.v), env, r.st)

\* The loop of Instruction::Access from step i on
access_loop(accesses, i, current, last_external, env, st) ==
    IF i > Len(accesses) THEN ROk(st, current, FALSE)
    ELSE
    LET access == accesses[i]
    IN  IF access.a = "Call" /\ last_external.some
        THEN LET a == run_args(access.args, 1, <<>>, env, st)
             IN  IF run_bubble_returns(a) THEN a
                 ELSE IF last_external.id \in a.st.borrowed THEN RPanic(a.st)
                 ELSE LET c == Vector_call_function(a.st.heap, last_external.id,
                                                    last_external.name, a.v)
                          st2 == log_call([a.st EXCEPT !.heap = c.heap],
                                          last_external.name, last_external.id, a.v)
                      IN  IF ~c.ok THEN RErr(st2, c.err)
                          ELSE access_loop(accesses, i + 1, c.v, last_external,
                                           env, st2)
        ELSE
        CASE access.a = "Name" ->
                CASE current.kind = "Null" ->
                        LET name == resolve_alias(env.aliases, access.name)
                            found == root_lookup(env.constants, st.variables, name)
                        IN  IF ~found.some
                            THEN RErr(st, MolangError("VariableNotFound", name, Null))
                            ELSE access_loop(accesses, i + 1, found.v, NoExternal,
                                             env, st)
                  [] current.kind = "Struct" ->
                        access_loop(accesses, i + 1,
                                    map_get(current.fields, access.name),
                                    NoExternal, env, st)
                  [] current.kind = "External" ->
                        IF current.id \in st.borrowed THEN RPanic(st)
                        ELSE access_loop(accesses, i + 1,
                                Vector_get(st.heap, current.id, access.name),
                                SomeExternal(current.id, access.name), env, st)
                  [] OTHER -> BadAccess(st, ".", current)
          [] access.a = "Index" ->
                IF current.kind = "External"
                THEN IF current.id \in st.borrowed THEN RPanic(st)
                     ELSE
                     LET x == run_expr(access.idx, env,
                                [st EXCEPT !.borrowed = @ \cup {current.id}])
                         st2 == [x.st EXCEPT !.borrowed = st.borrowed]
                     IN  IF x.tag = "Panic" THEN x
                         ELSE IF run_bubble_returns(x) THEN [x EXCEPT !.st = st2]
                         ELSE LET g == Vector_index_get(st2.heap, current.id, x.v)
                              IN  IF ~g.ok THEN RErr(st2, g.err)
                                  ELSE access_loop(accesses, i + 1, g.v,
                                                   NoExternal, env, st2)
                ELSE BadAccess(st, "[]", current)
          [] access.a = "Call" ->
                IF current.kind = "Function"
                THEN LET a == run_args(access.args, 1, <<>>, env, st)
                     IN  IF run_bubble_returns(a) THEN a
                         ELSE LET c == call_host(current, a.st.heap, a.v)
                                  st2 == log_call([a.st EXCEPT !.heap = c.heap],
                                                  current.f, 0, a.v)
                              IN  IF ~c.ok THEN RErr(st2, c.err)
                                  ELSE access_loop(accesses, i + 1, c.v,
                                                   NoExternal, env, st2)
                ELSE BadAccess(st, "()", current)

\* An error that does not tell a constant from a name bound nowhere
not_a_variable_unchecked(constants, name) ==
    MolangError("VariableNotFound", name, Null)

\* The error of an assignment whose root name is not in variables
not_a_variable(constants, name) ==
    IF name \in DOMAIN constants
    THEN MolangError("NotAssignable", "Constant " \o name, Null)
    ELSE MolangError("VariableNotFound", name, Null)

\* The loop of Instruction::Assignment that resolves the target, from step i
\* on.  Ok carries the pointer in v.
assign_loop(accesses, i, current, env, st) ==
    IF i > Len(accesses) THEN ROk(st, current, FALSE)
    ELSE
    LET access == accesses[i]
        here == deref(current, st.variables)
    IN  CASE access.a = "Name" ->
                CASE here.kind = "Null" ->
                        LET name == resolve_alias(env.aliases, access.name)
                        IN  IF name \in DOMAIN st.variables
                            THEN assign_loop(accesses, i + 1, PPath(name, <<>>),
                                             env, st)
                            ELSE RErr(st, not_a_variable(env.constants, name))
                  [] here.kind = "Struct" ->
                        IF current.p = "path"
                        THEN IF has_key(here.fields, access.name)
                             THEN assign_loop(accesses, i + 1,
                                    PPath(current.root,
                                          Append(current.keys, access.name)),
                                    env, st)
                             ELSE assign_loop(accesses, i + 1,
                                    PPath(current.root,
                                          Append(current.keys, access.name)),
                                    env,
                                    log_insert(
                                      [st EXCEPT !.variables[current.root] =
                                         set_path(@, Append(current.keys, access.name),
                                                  1, EmptyStruct)],
                                      <<current.root>> \o current.keys,
                                      Cardinality(DOMAIN here.fields)))
                        ELSE assign_loop(accesses, i + 1,
                                PTemp(IF has_key(here.fields, access.name)
                                      THEN here.fields[access.name]
                                      ELSE EmptyStruct),
                                env, [st EXCEPT !.ub = TRUE])
                  [] here.kind = "External" ->
                        IF here.id \in st.borrowed THEN RPanic(st)
                        ELSE assign_loop(accesses, i + 1,
                                PTemp(Vector_get(st.heap, here.id, access.name)),
                                env, st)
                  [] OTHER -> BadAccess(st, ".", here)
          [] access.a = "Index" ->
                IF here.kind = "External"
                THEN IF here.id \in st.borrowed THEN RPanic(st)
                     ELSE
                     LET x == run_expr(access.idx, env,
                                [st EXCEPT !.borrowed = @ \cup {here.id}])
                         st2 == [x.st EXCEPT !.borrowed = st.borrowed]
                     IN  IF x.tag = "Panic" THEN x
                         ELSE IF run_bubble_returns(x) THEN [x EXCEPT !.st = st2]
                         ELSE LET g == Vector_index_get(st2.heap, here.id, x.v)
                              IN  IF ~g.ok THEN RErr(st2, g.err)
                                  ELSE assign_loop(accesses, i + 1, PTemp(g.v),
                                                   env, st2)
                ELSE BadAccess(st, "[]", here)
          [] access.a = "Call" ->
                RErr(st, MolangError("NotAssignable", "Call", Null))

\* `*current = value; Ok(((*current).clone(), false))` once the right side
\* has run to value in state st; n is the length of st.events when current
\* was resolved.
assign_store(current, n, value, env, st) ==
    IF current.p = "temp" \/ dangles(current, st.events, n)
    THEN CASE env.ub = "abort" -> RPanic([st EXCEPT !.ub = TRUE])
           [] env.ub = "lands" /\ current.p = "path"
                /\ ~\E j \in (n + 1)..Len(st.events) : st.events[j].ev = "store"
                      /\ IsPrefix(st.events[j].path, <<current.root>> \o current.keys)
                      /\ st.events[j].path # <<current.root>> \o current.keys ->
                ROk([store(st, current, value) EXCEPT !.ub = TRUE], value, FALSE)
           [] OTHER -> ROk([st EXCEPT !.ub = TRUE], value, FALSE)
    ELSE ROk(store(st, current, value), value, FALSE)

run_expr(expr, env, st) ==
    IF expr.e = "Literal" THEN ROk(st, expr.v, FALSE)
    ELSE
    LET i == expr.i
    IN  CASE i.op \in {"Add", "Subtract", "Multiply", "Divide"} ->
                LET left == run_expr(i.l, env, st)
                IN  IF run_bubble_returns(left) THEN left
                    ELSE IF left.v.kind # "Number" THEN TypeError(left.st, left.v)
                    ELSE LET right == run_expr(i.r, env, left.st)
                         IN  IF run_bubble_returns(right) THEN right
                             ELSE IF right.v.kind # "Number"
                             THEN TypeError(right.st, right.v)
                             ELSE ROk(right.st, arithmetic(i.op, left.v, right.v),
                                      FALSE)
          [] i.op = "Access" ->
                access_loop(i.accesses, 1, Null, NoExternal, env, st)
          [] i.op = "Assignment" ->
                IF i.l.e = "Literal" \/ i.l.i.op # "Access"
                THEN RErr(st, MolangError("NotAssignable", "Expr", Null))
                ELSE LET t == assign_loop(i.l.i.accesses, 1, PInit, env, st)
                     IN  IF run_bubble_returns(t) THEN t
                         ELSE LET right == run_expr(i.r, env, t.st)
                              IN  IF run_bubble_returns(right) THEN right
                                  ELSE assign_store(t.v, Len(t.st.events), right.v,
                                                    env, right.st)
          [] i.op = "Equality" ->
                LET left == run_expr(i.l, env, st)
                IN  IF run_bubble_returns(left) THEN left
                    ELSE LET right == run_expr(i.r, env, left.st)
                         IN  IF run_bubble_returns(right) THEN right
                             ELSE IF eq_borrows(left.v, right.v)
                                        \cap right.st.borrowed # {}
                             THEN RPanic(right.st)
                             ELSE ROk(right.st,
                                      bool_into(molang_eq(left.v, right.v)), FALSE)
          [] i.op = "Conditional" ->
                LET left == run_expr(i.l, env, st)
                IN  IF run_bubble_returns(left) THEN left
                    ELSE IF left.v.kind # "Number" THEN TypeError(left.st, left.v)
                    ELSE IF ~is_colon(i.r)
                    THEN RErr(left.st, MolangError("SyntaxError",
                                "Expected colon to close terenary", Null))
                    ELSE IF takes_if_true(left.v)
                         THEN run_expr(i.r.i.l, env, left.st)
                         ELSE run_expr(i.r.i.r, env, left.st)
          [] i.op = "NullishCoalescing" ->
                LET left == run_expr(i.l, env, st)
                IN  IF run_bubble_returns(left) THEN left
                    ELSE IF is_null(left.v)
                    THEN LET right == run_expr(i.r, env, left.st)
                         IN  IF run_bubble_returns(right) THEN right
                             ELSE ROk(right.st, right.v, FALSE)
                    ELSE ROk(left.st, left.v, FALSE)
          [] i.op = "Colon" ->
                RErr(st, MolangError("SyntaxError", "Unexpected colon", Null))
          [] i.op = "Not" ->
                LET n == run_expr(i.x, env, st)
                IN  IF run_bubble_returns(n) THEN n
                    ELSE IF n.v.kind # "Number" THEN TypeError(n.st, n.v)
                    ELSE ROk(n.st, not_number(n.v), FALSE)
          [] i.op = "Return" ->
                LET r == run_expr(i.x, env, st)
                IN  IF run_bubble_returns(r) THEN r
                    ELSE ROk(r.st, r.v, TRUE)

\* The loop of run_block over the statements of a block marked multiple
RECURSIVE run_statements(_, _, _, _), run_statement(_, _, _, _)
run_statements(statements, k, env, st) ==
    IF k > Len(statements) THEN ROk(st, Int2Num(0), FALSE)
    ELSE run_statement(statements, k, env, run_expr(statements[k], env, st))

\* A loop that does not look at the early-return flag
run_statement_unflagged(statements, k, env, r) ==
    IF r.tag # "Ok" THEN r
    ELSE run_statements(statements, k + 1, env, r.st)

\* A loop that goes on with the next statement after one that failed
run_statement_resuming(statements, k, env, r) ==
    IF r.tag = "Ok" /\ r.ret THEN ROk(r.st, r.v, FALSE)
    ELSE run_statements(statements, k + 1, env, r.st)

\* `let (v, ret) = run_expr(..)?; if ret { return Ok(v) }` with r the
\* outcome of statement k
run_statement(statements, k, env, r) ==
    IF r.tag # "Ok" THEN r
    ELSE IF r.ret THEN ROk(r.st, r.v, FALSE)
    ELSE run_statements(statements, k + 1, env, r.st)

\* `Ok(run_expr(..)?.0)` of a single block
run_single(r) == IF r.tag # "Ok" THEN r ELSE ROk(r.st, r.v, FALSE)

run_block(block, env, st) ==
    IF block.multiple
    THEN run_statements(block.statements, 1, env, st)
    ELSE run_single(run_expr(block.statements[1], env, st))

-----------------------------------------------------------------------------
(* The host.  It owns constants, variables and aliases, and calls compile  *)
(* and run once per line, keeping variables (and the External objects)     *)
(* from one line to the next: the loop of src/repl/src/main.rs.            *)

VARIABLES
    constants,  \* name -> Value, never written by a run
    variables,  \* name -> Value
    aliases,    \* alias -> name
    heap,       \* the External objects: heap[id] is the object of External(id)
    runs,       \* the number of lines run
    last,       \* the last line: its source, its outcome, the state before it
    parsed,     \* the token slice given to treeify, and what it returned
    lexer       \* the loop of tokenise: its input, position, state and tokens

vars == <<constants, variables, aliases, heap, runs, last, parsed, lexer>>

\* Bounds of the model
MaxRuns == 3
MaxTokens == 5

\* The environment of the REPL (`variable`, the alias v, `array`), of the
\* evaluator's tests (`pi`, `math.max`, `lolz`), three numbers a, b and c, a
\* name x bound in both constants and variables, and an alias w of a name
\* bound nowhere.
HostConstants ==
    [pi |-> MkNum(1, 314, 100),
     math |-> Struct([max |-> Function("max")]),
     array |-> Function("array"),
     x |-> Int2Num(7)]
HostVariables(a, b) ==
    [variable |-> EmptyStruct, lolz |-> EmptyStruct, a |-> a, b |-> b,
     c |-> Int2Num(2), x |-> Int2Num(1)]
HostAliases == [v |-> "variable", w |-> "missing"]

NoRun ==
    [src |-> "", compiled |-> "None", cerr |-> "None", tag |-> "None",
     v |-> Null, err |-> NoErr, pre |-> << >>, preheap |-> << >>,
     calls |-> << >>, events |-> << >>, ub |-> FALSE, outcome |-> "lands"]
NoParse == [tokens |-> << >>, done |-> FALSE, ok |-> FALSE, expr |-> Literal(Null),
            err |-> "None"]

\* No call of tokenise under way
NoLexer ==
    [input |-> "", cfg |-> LoopCfg("None", 1, NoState, <<>>, "", ""),
     holds |-> 0, most |-> 0]

\* The lines the host feeds in
Programs ==
    {"v.q ?? 5", "0 ?? (v.w = 2)", "1 ?? array(1)", "v.x ?? (v.w = 2)",
     "lolz.nested.property = 200", "lolz.nested.property", "lolz.nested.b = a",
     "lolz.a.b = lolz.a = 5",
     "1; 2;", "1; return 5;", "v.p = 1; v.p = 2; return v.p; v.q = 3;",
     "v.x = 1", "variable.x", "v.x",
     "v.a = array(1, 2)", "v.a.push(3)", "v.a.length",
     "doesnotexist", "w.k", "pi = 1", "doesnotexist = 1", "1 +",
     "x = 5", "x", "lolz.a.b = doesnotexist",
     "v.a.length = 5", "v.a[0] = 9",
     "v.p = 1; doesnotexist; v.q = 2;", "v.a[v.a.length]",
     "lolz.nested.missing", "v.m == lolz.n; !v.a[0]; v.q.z", "a + lolz[0]"}

\* The lines run on every pair of numbers a and b
NumberPrograms ==
    {"a + b", "a - b", "a * b", "a / b", "pi * 100",
     "!1 ? 100 : 200", "a ? (v.t = 1) : 2", "a ? 1 : (v.e = 2)",
     "a ? array(1) : array(1, 2)",
     "!a", "!0", "!1", "!lolz", "!array",
     "array == array", "math == math", "lolz == variable", "math == lolz",
     "a == b",
     "1 + (return 2)", "(return a) + array(1)", "!(return 2)",
     "(return 2) == 1", "(return 2) ?? 1", "v.q ?? (return 2)",
     "(return 2) ? 1 : 0", "a ? (return 5) : 0; 9;",
     "array(1, return 2, v.t = 1)", "array(1, 2)[return 0]",
     "x = (return 2)", "v.t = (return 2)", "(return 2) + 1; v.t = 1;",
     "1 + 2; !0; a == b; v.q ?? 1; x = 3; array(1); b ? 2 : 3;",
     "1 = 2", "a + b = 3", "x(1) = 2", "v.f(1) = 2", "array(1) = 2",
     "1 = (v.t = 2)",
     "a ? 1", "1 : 2", "a ? b ? 1 : 2 : 3", "a ? 1 : 2 : 3", "a ? (v.t = 1)",
     "a.x", "array.x", "a[0]", "lolz[array(1)]", "v.q[0]", "array[0]",
     "a(array(1))", "lolz(1)", "v.q(1)", "a.x(array(1))", "math.max.x.y"}

\* The values of a and b: both zeros, an integer of each sign, a fraction,
\* both infinities and NaN
Numbers ==
    {Int2Num(0), NegZero, Int2Num(6), Int2Num(-3), MkNum(1, 1, 2),
     Inf(1), Inf(-1), NaN}

\* The lines that show how treeify groups, and the tokens of the slices
\* given to treeify directly
ParsePrograms ==
    {"8 - 3 - 2", "a + b * c",
     "{ + }", "{}", "{ 1 }", "1²", "1.2.3", "{ 1.2.3 }",
     "(1) + (2)", "!(-5)", "1; return 1;"}
Alphabet ==
    {TNumber(Int2Num(1)), TOperator("Add"), TOperator("Subtract"),
     TOperator("Multiply"), TOpenBracket, TCloseBracket}
TokenSlices == UNION {[1..n -> Alphabet] : n \in 0..MaxTokens}

Env(ub) == [constants |-> constants, aliases |-> aliases, ub |-> ub]
St0 == [variables |-> variables, heap |-> heap, borrowed |-> {},
        calls |-> << >>, events |-> << >>, ub |-> FALSE]

Init ==
    /\ constants = HostConstants
    /\ variables = HostVariables(Int2Num(6), Int2Num(3))
    /\ aliases = HostAliases
    /\ heap = << >>
    /\ runs = 0
    /\ last = NoRun
    /\ parsed = NoParse
    /\ lexer = NoLexer

\* One turn of the loop: compile the line; print a compile error and go on,
\* else run the block against the environment.  A panic ends the process.
Ran(src, ub, r) ==
    /\ variables' = r.st.variables
    /\ heap' = r.st.heap
    /\ last' = [src |-> src, compiled |-> "Ok", cerr |-> "None",
                tag |-> r.tag, v |-> r.v, err |-> r.err,
                pre |-> variables, preheap |-> heap,
                calls |-> r.st.calls, events |-> r.st.events,
                ub |-> r.st.ub,
                outcome |-> IF r.st.ub THEN ub ELSE "lands"]
CompiledLine(src, ub, c) ==
    IF c.tag # "Ok"
    THEN /\ last' = [NoRun EXCEPT !.src = src, !.compiled = c.tag,
                                  !.cerr = c.err, !.pre = variables,
                                  !.preheap = heap]
         /\ UNCHANGED <<variables, heap>>
    ELSE Ran(src, ub, run_block(c.block, Env(ub), St0))
Line(src, ub) ==
    /\ runs < MaxRuns
    /\ last.tag # "Panic" /\ last.compiled # "Panic"
    /\ runs' = runs + 1
    /\ CompiledLine(src, ub, compile(src))
    /\ UNCHANGED <<constants, aliases, parsed, lexer>>

Next == \E src \in Programs : \E ub \in UBOutcomes : Line(src, ub)

Spec == Init /\ [][Next]_vars

\* Every pair of numbers, one line each
InitNumbers ==
    /\ constants = HostConstants
    /\ \E a \in Numbers : \E b \in Numbers : variables = HostVariables(a, b)
    /\ aliases = HostAliases
    /\ heap = << >>
    /\ runs = 0
    /\ last = NoRun
    /\ parsed = NoParse
    /\ lexer = NoLexer

NumberLine(src, ub) == runs = 0 /\ Line(src, ub)

NextNumbers == \E src \in NumberPrograms : \E ub \in UBOutcomes : NumberLine(src, ub)

SpecNumbers == InitNumbers /\ [][NextNumbers]_vars

\* treeify on a token slice of its own
Parsed(tokens, r) ==
    [tokens |-> tokens, done |-> TRUE, ok |-> r.ok, expr |-> r.expr,
     err |-> r.err]
Treeify(tokens) ==
    /\ runs = 0
    /\ ~parsed.done
    /\ parsed' = Parsed(tokens, treeify(tokens))
    /\ UNCHANGED <<constants, variables, aliases, heap, runs, last, lexer>>

ParseLine(src, ub) == ~parsed.done /\ Line(src, ub)

NextParse ==
    \/ ~parsed.done /\ \E tokens \in TokenSlices : Treeify(tokens)
    \/ \E src \in ParsePrograms : \E ub \in UBOutcomes : ParseLine(src, ub)

SpecParse == Init /\ [][NextParse]_vars

\* blockise on a token slice of its own, and the lines that show what the
\* lexer accepts and where it stops at the end of the input
SyntaxPrograms ==
    {"1; 1;", "1; 1", "1", ";", "1;; 2", "1; +;",
     "#", "1 + #", "[1]", "1]", "1 }", ".5", "_a", "a_b", "a.b",
     "array(1", "v.a[0", "{ 1", "12", "abc", "array(1, (2)", "v.a[(0]", "v.a[0)",
     "a=1", "???", "a ?? 1", "a == 1", "a ?", "a =", "====", "a?b:c",
     "1_000", "100.0", "100.0*99", "1.2.3", "1.", "1_", "1._5", "0.25", "1_0.5+2",
     "1.5.", "007",
     "math.sin(1)", "f((1), 2)", "v.a[b[0]].c", "a.b.c", "f(b[1])(2)", "a_b.c1",
     "f()", "f(g(1)) + 1",
     "1; return 5;", "1; return (5);", "1; return(5)", "1; return[0];",
     "returns (5)", "return.a + 1"}
BlockAlphabet == {TNumber(Int2Num(1)), TOperator("Add"), TSemicolon}
BlockSlices == UNION {[1..n -> BlockAlphabet] : n \in 0..MaxTokens}

Blockised(tokens, r) ==
    [tokens |-> tokens, done |-> TRUE, ok |-> r.ok, expr |-> Literal(Null),
     err |-> r.err, block |-> r.block]
Blockise(tokens) ==
    /\ runs = 0
    /\ ~parsed.done
    /\ parsed' = Blockised(tokens, blockise(tokens))
    /\ UNCHANGED <<constants, variables, aliases, heap, runs, last, lexer>>

SyntaxLine(src, ub) == runs = 0 /\ ~parsed.done /\ Line(src, ub)

NextSyntax ==
    \/ ~parsed.done /\ \E tokens \in BlockSlices : Blockise(tokens)
    \/ \E src \in SyntaxPrograms : \E ub \in UBOutcomes : SyntaxLine(src, ub)

SpecSyntax == Init /\ [][NextSyntax]_vars

\* Sources nested to every depth up to MaxNesting, in the grouping brackets
\* of an operand and in call arguments
MaxNesting == 3
RECURSIVE Nested(_, _, _)
Nested(open, close, depth) ==
    IF depth = 0 THEN "a" ELSE open \o Nested(open, close, depth - 1) \o close
Nesting == {[open |-> "(1 + ", close |-> ")"], [open |-> "array(", close |-> ")"]}

NestedLine(src, ub) == runs = 0 /\ Line(src, ub)

NextNesting ==
    \E n \in Nesting : \E depth \in 1..MaxNesting : \E ub \in UBOutcomes :
        NestedLine(Nested(n.open, n.close, depth), ub)

SpecNesting == InitNumbers /\ [][NextNesting]_vars

\* The lines that show calls, shared values and the steps of a chain, run
\* one after another
ChainPrograms ==
    {"math.max(1, 5, 2) * 100", "math.max()", "math.max(1, lolz)",
     "array(v.i = 1, v.i = 2)", "math.max(v.i = 1, doesnotexist, v.j = 2)",
     "v.s.z = 2", "v.b = v.s", "v.b.k = 1",
     "v.q.pi", "v.q.v", "v.n = v.q", "v.n.x = 5",
     "v.a = array(1, 2)", "v.a.push(3)(4)",
     "v.c = v.d = 1"}

ChainLine(src, ub) == ~parsed.done /\ Line(src, ub)

NextChains == \E src \in ChainPrograms : \E ub \in UBOutcomes : ChainLine(src, ub)

SpecChains == Init /\ [][NextChains]_vars

\* The loop of tokenise, one turn at a time, on every input of up to MaxChars
\* characters over one character of each kind the states tell apart, and on
\* the lines of SyntaxPrograms.  `holds` counts the turns in a row that held
\* the character (it stops counting at HoldsSeen), `most` is its largest
\* value so far.
MaxChars == 3
HoldsSeen == 3
LexerChars == {"1", "a", " ", ".", "(", ")", "?", "{", "}"}
RECURSIVE Words(_)
Words(n) ==
    IF n = 0 THEN {""}
    ELSE LET shorter == Words(n - 1)
         IN  shorter \cup {w \o c : w \in shorter, c \in LexerChars}
LexerInputs == Words(MaxChars) \cup SyntaxPrograms
Lexing(input) ==
    [input |-> input, cfg |-> LoopCfg("Run", 1, NormalState, <<>>, "", ""),
     holds |-> 0, most |-> 0]
\* `tokenise(input)` is called
Tokenise(input) ==
    /\ lexer.cfg.res = "None"
    /\ lexer' = Lexing(input)
    /\ UNCHANGED <<constants, variables, aliases, heap, runs, last, parsed>>
Turned(r) ==
    LET held == r.tag = "Ok" /\ r.action = "Hold"
        holds == IF ~held THEN 0
                 ELSE IF lexer.holds < HoldsSeen THEN lexer.holds + 1
                 ELSE HoldsSeen
    IN  [input |-> lexer.input, cfg |-> tokenise_handled(lexer.cfg, r),
         holds |-> holds,
         most |-> IF holds > lexer.most THEN holds ELSE lexer.most]
\* One turn of `loop { .. }`
Turn ==
    /\ lexer.cfg.res = "Run"
    /\ lexer' = Turned(handle(lexer.cfg.state, nth(lexer.input, lexer.cfg.i)))
    /\ UNCHANGED <<constants, variables, aliases, heap, runs, last, parsed>>
NextLexer == (\E input \in LexerInputs : Tokenise(input)) \/ Turn
\* The loop is sequential code: while it is not done it takes its next turn.
\* This is WF_lexer(Turn) with ENABLED <<Turn>>_lexer written out: Turn is
\* defined on every running configuration and changes it.
LoopRuns == []<>(lexer.cfg.res # "Run") \/ []<><<Turn>>_lexer
SpecLexer == Init /\ [][NextLexer]_vars /\ LoopRuns

-----------------------------------------------------------------------------
(* Properties                                                              *)

\* The line that has just run, and the Struct `variable` before and after it
Ran_(src) == last.src = src /\ last.compiled = "Ok"
RanOk(src) == Ran_(src) /\ last.tag = "Ok"
Untouched == variables = last.pre /\ heap = last.preheap

\* What `a op b` is to return
C1_Expected(src, a, b) ==
    CASE src = "a + b" -> fadd(a, b)
      [] src = "a - b" -> fsub(a, b)
      [] src = "a * b" -> fmul(a, b)
      [] src = "a / b" -> fdiv(a, b)
\* C1: for every pair of numbers a and b bound as variables, running
\* `a op b` with op one of + - * / returns the Number a op b and never an
\* error, division by zero included; the Number constant pi behaves the same
\* in `pi * 100`.
C1_Arithmetic ==
    /\ last.src \in {"a + b", "a - b", "a * b", "a / b"} =>
          /\ RanOk(last.src)
          /\ last.v.kind = "Number"
          /\ last.v = C1_Expected(last.src, last.pre.a, last.pre.b)
    /\ last.src = "pi * 100" => RanOk("pi * 100") /\ last.v = Int2Num(314)
C1_Witness ==
    /\ RanOk("a / b")
    /\ last.pre.a = Int2Num(6) /\ last.pre.b = NegZero
    /\ last.v = Inf(-1)

\* The operator treeify is to root a slice at, and the tree it is to build
C2_Depth(tokens, j) ==
    Cardinality({k \in 1..(j - 1) : tokens[k].t = "OpenBracket"})
        - Cardinality({k \in 1..(j - 1) : tokens[k].t = "CloseBracket"})
C2_Candidates(tokens) ==
    {j \in 1..Len(tokens) : tokens[j].t = "Operator" /\ C2_Depth(tokens, j) = 0}
C2_Root(tokens) ==
    CHOOSE j \in C2_Candidates(tokens) :
        \A k \in C2_Candidates(tokens) :
            \/ precidence(tokens[k].op) > precidence(tokens[j].op)
            \/ precidence(tokens[k].op) = precidence(tokens[j].op) /\ k >= j
C2_Split(scanned, j, left, right) ==
    IF left.ok /\ right.ok
    THEN /\ parsed.ok
         /\ parsed.expr = Derived(Binary(scanned[j].op, left.expr, right.expr))
    ELSE ~parsed.ok
C2_Rooted(scanned, j) ==
    C2_Split(scanned, j, treeify(SubSeq(scanned, 1, j - 1)),
             treeify(SubSeq(scanned, j + 1, Len(scanned))))
C2_Scanned(scanned) ==
    IF C2_Candidates(scanned) # {}
    THEN C2_Rooted(scanned, C2_Root(scanned))
    ELSE parsed.ok => parsed.expr.e = "Literal"
\* C2: treeify makes the root of the slice it scans the depth-zero operator
\* with the smallest precedence value, the leftmost one among those sharing
\* the minimum, and never an operator inside parentheses: its operands are
\* the slices on either side.  So `8 - 3 - 2` is 8 - (3 - 2) = 7 and
\* `a + b * c` is a + (b * c).  The slice scanned is what is left once
\* treeify has taken off an enclosing pair of parentheses.
C2_Grouping ==
    /\ parsed.done => C2_Scanned(strip_brackets(parsed.tokens))
    /\ last.src = "8 - 3 - 2" => RanOk(last.src) /\ last.v = Int2Num(7)
    /\ last.src = "a + b * c" =>
          /\ RanOk(last.src)
          /\ last.v = fadd(last.pre.a, fmul(last.pre.b, last.pre.c))
C2_Witness ==
    /\ parsed.done /\ parsed.ok
    /\ parsed.tokens = tokenise("1 - 1 - 1").tokens
    /\ parsed.expr =
          Derived(Binary("Subtract", Literal(Int2Num(1)),
                         Derived(Binary("Subtract", Literal(Int2Num(1)),
                                        Literal(Int2Num(1))))))

\* C3: `cond ? t : e` with a Number condition runs and returns t when cond is
\* not 0.0 and e when it is, and never runs the other branch: the assignment
\* or the host call of the branch not taken leaves no effect.  `!1 ? 100 :
\* 200` is 200.
C3_Conditional ==
    /\ last.src = "a ? (v.t = 1) : 2" =>
          /\ RanOk(last.src)
          /\ IF IsZero(last.pre.a)
             THEN last.v = Int2Num(2) /\ Untouched
             ELSE /\ last.v = Int2Num(1)
                  /\ variables.variable = Struct([t |-> Int2Num(1)])
    /\ last.src = "a ? 1 : (v.e = 2)" =>
          /\ RanOk(last.src)
          /\ IF IsZero(last.pre.a)
             THEN /\ last.v = Int2Num(2)
                  /\ variables.variable = Struct([e |-> Int2Num(2)])
             ELSE last.v = Int2Num(1) /\ Untouched
    /\ last.src = "a ? array(1) : array(1, 2)" =>
          /\ RanOk(last.src)
          /\ Len(last.calls) = 1 /\ Len(heap) = 1
          /\ last.v = External(1)
          /\ IF IsZero(last.pre.a)
             THEN heap[1].vec = <<Int2Num(1), Int2Num(2)>>
             ELSE heap[1].vec = <<Int2Num(1)>>
    /\ last.src = "!1 ? 100 : 200" => RanOk(last.src) /\ last.v = Int2Num(200)
C3_Witness ==
    /\ RanOk("a ? (v.t = 1) : 2")
    /\ last.pre.a = NegZero
    /\ last.v = Int2Num(2)
    /\ variables.variable = EmptyStruct

\* C4: `a ?? b` returns the value of a whenever a is anything but Null and
\* then does not run b (no store, no host call of b happens), and returns
\* the value of b when a is Null.
Field(struct, key) ==
    IF key \in DOMAIN struct.fields THEN struct.fields[key] ELSE Null
C4_Nullish ==
    /\ last.src = "v.q ?? 5" =>
          RanOk(last.src) /\ last.v = Int2Num(5) /\ Untouched
    /\ last.src = "0 ?? (v.w = 2)" =>
          RanOk(last.src) /\ last.v = Int2Num(0) /\ Untouched
    /\ last.src = "1 ?? array(1)" =>
          RanOk(last.src) /\ last.v = Int2Num(1) /\ Untouched
              /\ last.calls = << >>
    /\ last.src = "v.x ?? (v.w = 2)" =>
          /\ RanOk(last.src)
          /\ IF Field(last.pre.variable, "x") = Null
             THEN /\ last.v = Int2Num(2)
                  /\ Field(variables.variable, "w") = Int2Num(2)
             ELSE /\ last.v = Field(last.pre.variable, "x")
                  /\ Untouched
C4_Witness ==
    /\ RanOk("v.x ?? (v.w = 2)")
    /\ last.v = Int2Num(1)
    /\ "w" \notin DOMAIN variables.variable.fields

\* Reading src in the environment as it is now
Read(src) == run_block(compile(src).block, Env("lands"), St0)

\* The path, the value and the read-back of each assignment line
C5_Target(src) ==
    CASE src = "lolz.nested.property = 200" -> <<"nested", "property">>
      [] src = "lolz.nested.b = a" -> <<"nested", "b">>
      [] src = "lolz.a.b = lolz.a = 5" -> <<"a", "b">>
C5_Read(src) ==
    CASE src = "lolz.nested.property = 200" -> "lolz.nested.property"
      [] src = "lolz.nested.b = a" -> "lolz.nested.b"
      [] src = "lolz.a.b = lolz.a = 5" -> "lolz.a.b"
C5_Assigned(src) ==
    CASE src = "lolz.nested.property = 200" -> Int2Num(200)
      [] src = "lolz.nested.b = a" -> last.pre.a
      [] src = "lolz.a.b = lolz.a = 5" -> Int2Num(5)
C5_Kept(before, after, key) ==
    \A k \in DOMAIN before.fields \ {key} :
        k \in DOMAIN after.fields /\ after.fields[k] = before.fields[k]
C5_Stored(before, after, keys, value) ==
    /\ after.kind = "Struct"
    /\ C5_Kept(before, after, keys[1])
    /\ Field(after, keys[1]).kind = "Struct"
    /\ Field(before, keys[1]).kind = "Struct" =>
          C5_Kept(Field(before, keys[1]), Field(after, keys[1]), keys[2])
    /\ Field(Field(after, keys[1]), keys[2]) = value
C5_ReadBack(read, value) == read.tag = "Ok" /\ read.v = value
\* C5: after a successful assignment `r.k1.k2 = e` on the Struct variable r,
\* reading `r.k1.k2` in the same environment returns the assigned value;
\* the missing intermediate key k1 has been created as a Struct, the keys
\* beside k1 and beside k2 are kept, and the assignment's own result is the
\* assigned value.
C5_RoundTrip ==
    \A src \in {"lolz.nested.property = 200", "lolz.nested.b = a",
                "lolz.a.b = lolz.a = 5"} :
        RanOk(src) =>
            /\ last.v = C5_Assigned(src)
            /\ C5_Stored(last.pre.lolz, variables.lolz, C5_Target(src),
                         C5_Assigned(src))
            /\ C5_ReadBack(Read(C5_Read(src)), C5_Assigned(src))

\* C6: run on a block marked multiple runs the statements in source order,
\* returns the value of the first statement that completes with the
\* early-return flag and runs no statement after it; with no early return
\* the result is Number(0.0) whatever the statements' values were.
C6_Block ==
    /\ last.src = "1; 2;" =>
          RanOk(last.src) /\ last.v = Int2Num(0) /\ Untouched
    /\ last.src = "1; return 5;" => RanOk(last.src) /\ last.v = Int2Num(5)
    /\ last.src = "v.p = 1; v.p = 2; return v.p; v.q = 3;" =>
          /\ RanOk(last.src)
          /\ compile(last.src).block.multiple
          /\ last.v = Int2Num(2)
          /\ Field(variables.variable, "p") = Int2Num(2)
          /\ "q" \notin DOMAIN variables.variable.fields
C6_Witness ==
    /\ RanOk("v.p = 1; v.p = 2; return v.p; v.q = 3;")
    /\ last.v = Int2Num(2)
    /\ DOMAIN variables.variable.fields = {"p"}

\* A read that returns 1
C7_ReadsOne(read) == read.tag = "Ok" /\ read.v = Int2Num(1)
\* C7: a write through an alias is a write to the canonical variable: with
\* the alias v of `variable`, a Struct, after `v.x = 1` both `variable.x`
\* and `v.x` read 1, and variables never gets a name `v`.
C7_Alias ==
    /\ "v" \notin DOMAIN variables
    /\ last.src = "v.x = 1" =>
          /\ RanOk(last.src)
          /\ last.v = Int2Num(1)
          /\ Field(variables.variable, "x") = Int2Num(1)
          /\ C7_ReadsOne(Read("variable.x"))
          /\ C7_ReadsOne(Read("v.x"))
    /\ last.src \in {"variable.x", "v.x"} =>
          /\ RanOk(last.src)
          /\ last.v = Field(last.pre.variable, "x")
          /\ Untouched
C7_Witness ==
    /\ RanOk("variable.x")
    /\ last.v = Int2Num(1)
    /\ DOMAIN variables = DOMAIN HostVariables(Null, Null)

\* The handle in `v.a`, and what a push and a length read are to do
C8_Handle(vs) == Field(vs.variable, "a")
C8_Pushed(ext) ==
    /\ RanOk(last.src)
    /\ variables = last.pre
    /\ molang_eq(ext, C8_Handle(variables))
    /\ heap = [last.preheap EXCEPT ![ext.id].vec = Append(@, Int2Num(3))]
C8_Length(ext) ==
    /\ RanOk(last.src)
    /\ last.v = Int2Num(Len(heap[ext.id].vec))
    /\ Untouched
\* C8: a method call on an External reached through a variable acts on the
\* one shared object: with `v.a` the External built by `array(1, 2)`,
\* `v.a.push(3)` adds 3 to the object behind the handle, the handle in
\* `v.a` stays the same handle (identity-equal to the one read before), and
\* `v.a.length` then counts the pushed element: 3 after one push.
C8_Shared ==
    /\ last.src = "v.a = array(1, 2)" =>
          /\ RanOk(last.src)
          /\ last.v = External(Len(heap))
          /\ heap = Append(last.preheap, [vec |-> <<Int2Num(1), Int2Num(2)>>])
          /\ C8_Handle(variables) = last.v
    /\ last.src = "v.a.push(3)" /\ C8_Handle(last.pre).kind = "External" =>
          C8_Pushed(C8_Handle(last.pre))
    /\ last.src = "v.a.length" /\ C8_Handle(last.pre).kind = "External" =>
          C8_Length(C8_Handle(last.pre))
C8_Witness ==
    /\ RanOk("v.a.length")
    /\ last.v = Int2Num(3)
    /\ heap = <<[vec |-> <<Int2Num(1), Int2Num(2), Int2Num(3)>>]>>

\* A run that fails with VariableNotFound(name) and changes nothing
C9_Fails(name) ==
    /\ Ran_(last.src)
    /\ last.tag = "Err"
    /\ last.err = MolangError("VariableNotFound", name, Null)
    /\ Untouched
\* C9: reading a root name that, after alias substitution, is bound neither
\* in variables nor in constants fails with VariableNotFound carrying that
\* name, and leaves variables as they were.
C9_NotFound ==
    /\ last.src = "doesnotexist" => C9_Fails("doesnotexist")
    /\ last.src = "w.k" => C9_Fails("missing")
C9_Witness ==
    /\ Ran_("w.k")
    /\ last.err = MolangError("VariableNotFound", "missing", Null)
    /\ variables = last.pre

\* C10: assigning to a name bound only in constants (`pi = 1`) fails with
\* NotAssignable, assigning to a name bound nowhere fails with
\* VariableNotFound, both leaving constants and variables as they were; no
\* run adds a root name to variables or changes a constant.
C10_Constant ==
    /\ constants = HostConstants
    /\ DOMAIN variables = DOMAIN HostVariables(Null, Null)
    /\ last.src = "pi = 1" =>
          /\ Ran_(last.src)
          /\ last.tag = "Err"
          /\ last.err.kind = "NotAssignable"
          /\ Untouched
    /\ last.src = "doesnotexist = 1" => C9_Fails("doesnotexist")
C10_Witness ==
    /\ Ran_("pi = 1")
    /\ last.err.kind = "NotAssignable"
    /\ variables = last.pre
    /\ constants.pi = MkNum(1, 314, 100)

\* C11: a root name is looked up in variables first and in constants only
\* when variables lacks it: with x bound in both, reading `x` returns the
\* value variables holds, and after a successful `x = 5` reading `x` gives 5.
C11_VariablesFirst ==
    /\ last.src = "x" => RanOk(last.src) /\ last.v = last.pre.x
    /\ RanOk("x = 5") =>
          /\ variables.x = Int2Num(5)
          /\ C5_ReadBack(Read("x"), Int2Num(5))

\* C12: an assignment runs its right side before it resolves or touches the
\* target: when the right side fails, as in `lolz.a.b = doesnotexist`, the
\* run fails with that error and variables are as before, no key of the
\* target path having been created.
C12_RightSideFirst ==
    last.src = "lolz.a.b = doesnotexist" =>
        /\ Ran_(last.src)
        /\ last.tag = "Err"
        /\ last.err = MolangError("VariableNotFound", "doesnotexist", Null)
        /\ Untouched

\* The host calls of the last run that are calls of f on the object ext
C13_Calls(f, ext) ==
    {j \in 1..Len(last.calls) :
        last.calls[j].f = f /\ last.calls[j].recv = ext.id}

\* C13: assigning to a property or an index of an External calls the
\* object's set or index_set exactly once with the right-hand value, and the
\* setter's error is the error of the run: on a Vector in `v.a`,
\* `v.a.length = 5` calls set("length", 5) once and fails with the
\* NotAssignable that Vector::set returns, and `v.a[0] = 9` calls
\* index_set(0, 9) once.
C13_Setter ==
    /\ last.src = "v.a.length = 5" /\ C8_Handle(last.pre).kind = "External" =>
          /\ Ran_(last.src)
          /\ Cardinality(C13_Calls("set", C8_Handle(last.pre))) = 1
          /\ last.tag = "Err"
          /\ last.err.kind = "NotAssignable"
    /\ last.src = "v.a[0] = 9" /\ C8_Handle(last.pre).kind = "External" =>
          /\ Ran_(last.src)
          /\ Cardinality(C13_Calls("index_set", C8_Handle(last.pre))) = 1

C16_NoAbort ==
    /\ ~last.ub => last.tag # "Panic"
    /\ last.src = "v.a[v.a.length]" /\ C8_Handle(last.pre).kind = "External" =>
          RanOk(last.src) /\ last.v = Null /\ Untouched

\* C15: compile returns a Block or a CompileError for every source text and
\* never aborts: a failure inside the body of a brace-delimited block
\* (`{ + }`, `{}`) or inside a numeric literal is an error value, and a
\* lexical error (`{ 1.2.3 }`) is the error reported.
C15_NoAbort ==
    /\ last.compiled # "Panic"
    /\ last.src \in {"{ + }", "{}", "1²", "1.2.3", "{ 1.2.3 }"} =>
          last.compiled = "Err"
    /\ last.src \in {"1.2.3", "{ 1.2.3 }"} => last.cerr = "TokeniseError"

\* C17: treeify takes off a leading `(` and a trailing `)` only when they
\* are one matching pair around the whole slice, so `(1) + (2)` compiles to
\* Add(1, 2) and runs to 3.
C17_MatchingPair ==
    last.src = "(1) + (2)" =>
        /\ last.compiled = "Ok"
        /\ compile(last.src).block =
              Block(FALSE, <<Derived(Binary("Add", Literal(Int2Num(1)),
                                            Literal(Int2Num(2))))>>)
        /\ RanOk(last.src)
        /\ last.v = Int2Num(3)

\* C18: logical-not of a Number is Number(1.0) when the number equals 0.0
\* and Number(0.0) for every other number, negative ones included; on a
\* value that is no Number it fails with TypeError.  `!0` is 1 and `!1` is 0.
C18_Not ==
    /\ last.src = "!a" =>
          /\ RanOk(last.src)
          /\ last.v = IF IsZero(last.pre.a) THEN Int2Num(1) ELSE Int2Num(0)
          /\ Untouched
    /\ last.src = "!0" => RanOk(last.src) /\ last.v = Int2Num(1)
    /\ last.src = "!1" => RanOk(last.src) /\ last.v = Int2Num(0)
    /\ last.src \in {"!lolz", "!array"} =>
          /\ Ran_(last.src)
          /\ last.tag = "Err"
          /\ last.err.kind = "TypeError"
          /\ Untouched
C18_Witness ==
    /\ RanOk("!a")
    /\ last.pre.a = Int2Num(-3)
    /\ last.v = Int2Num(0)

\* C19: the source `!(-5)` compiles, and running it returns Number(0.0).
C19_NotOfNegative ==
    last.src = "!(-5)" =>
        /\ last.compiled = "Ok"
        /\ RanOk(last.src)
        /\ last.v = Int2Num(0)

\* C20: the word `return` at the start of a statement is lexed as a prefix
\* return operator and parsed into a Return instruction around the
\* expression to its right: `1; return 1;` compiles to a block marked
\* multiple with the statements Literal 1 and Return(Literal 1).
C20_Return ==
    last.src = "1; return 1;" =>
        /\ last.compiled = "Ok"
        /\ tokenise(last.src) =
              TOk(<<TNumber(Int2Num(1)), TSemicolon, TOperator("Return"),
                    TNumber(Int2Num(1)), TSemicolon>>)
        /\ compile(last.src).block =
              Block(TRUE, <<Literal(Int2Num(1)),
                            Derived(Unary("Return", Literal(Int2Num(1))))>>)
        /\ RanOk(last.src)
        /\ last.v = Int2Num(1)
C20_Witness ==
    /\ RanOk("1; return 1;")
    /\ last.v = Int2Num(1)
    /\ compile(last.src).block.multiple

\* The separators of a token slice, the number of statements they make and
\* the tokens of the k-th statement
C21_Separators(tokens) == {i \in 1..Len(tokens) : tokens[i].t = "Semicolon"}
C21_Separator(tokens, k) ==
    CHOOSE i \in C21_Separators(tokens) :
        Cardinality({j \in C21_Separators(tokens) : j <= i}) = k
C21_Count(tokens) ==
    IF C21_Separators(tokens) = {} THEN 1
    ELSE Cardinality(C21_Separators(tokens))
         + (IF tokens[Len(tokens)].t # "Semicolon" THEN 1 ELSE 0)
C21_Statement(tokens, k) ==
    SubSeq(tokens,
           IF k = 1 THEN 1 ELSE C21_Separator(tokens, k - 1) + 1,
           IF k <= Cardinality(C21_Separators(tokens))
           THEN C21_Separator(tokens, k) - 1 ELSE Len(tokens))
C21_Split(tokens, block) ==
    /\ block.multiple <=> C21_Separators(tokens) # {}
    /\ Len(block.statements) = C21_Count(tokens)
    /\ Len(block.statements) >= 1
    /\ \A k \in 1..Len(block.statements) :
           block.statements[k] = treeify(C21_Statement(tokens, k)).expr
\* C21: a block is multiple exactly when its tokens hold a separator; it
\* then has one statement per separator, in source order, and one more
\* exactly when tokens follow the last separator; without a separator it has
\* exactly one statement; no block that is returned is empty.
C21_Blockise ==
    /\ parsed.done /\ parsed.ok => C21_Split(parsed.tokens, parsed.block)
    /\ last.compiled = "Ok" =>
           C21_Split(tokenise(last.src).tokens, compile(last.src).block)
    /\ Ran_("1; 1;") =>
           compile(last.src).block
               = Block(TRUE, <<Literal(Int2Num(1)), Literal(Int2Num(1))>>)
C21_Witness ==
    /\ parsed.done /\ parsed.ok /\ parsed.block.multiple
    /\ Len(parsed.block.statements) = 2
    /\ Len(parsed.tokens) = 5
    /\ parsed.tokens[5].t # "Semicolon"

\* The characters NormalState::handle accepts, and the lines where it meets
\* one it does not, with that character
C22_Accepted ==
    Digits \cup Letters
        \cup {" ", ",", "*", "/", "+", ":", "-", "!", ";", "(", ")", "?", "=", "{"}
C22_Rejects ==
    [src \in {"#", "1 + #", "[1]", "1]", "1 }", ".5", "_a"} |->
        CASE src \in {"#", "1 + #"} -> "#"
          [] src = "[1]" -> "["
          [] src = "1]" -> "]"
          [] src = "1 }" -> "}"
          [] src = ".5" -> "."
          [] OTHER -> "_"]
C22_Rejected(src, t) ==
    /\ t.tag = "Err" /\ t.tokens = <<>>
    /\ t.found = C22_Rejects[src] /\ t.expected = "anything else"
    /\ last.compiled = "Err" /\ last.cerr = "TokeniseError"
    /\ last.tag = "None" /\ Untouched
C22_Unaccepted(src, t) ==
    t.tag = "Err" /\ t.expected = "anything else" =>
        /\ Len(t.found) = 1 /\ t.found \notin C22_Accepted
        /\ \E i \in 1..Len(src) : nth(src, i) = t.found
        /\ t.tokens = <<>> /\ last.cerr = "TokeniseError"
\* C22: when the Normal lexer state meets a character it does not accept
\* (`#`, `[`, `]`, `}`, a leading `.` or `_`), tokenise fails with an
\* Expectation error whose `found` is that character and returns no tokens,
\* and compile reports a TokeniseError; nothing is run.
C22_Unexpected ==
    /\ last.src \in DOMAIN C22_Rejects => C22_Rejected(last.src, tokenise(last.src))
    /\ last.compiled # "None" => C22_Unaccepted(last.src, tokenise(last.src))
    /\ last.src \in {"a_b", "a.b"} => last.compiled = "Ok"
C22_Witness ==
    /\ last.src = "1 + #" /\ last.compiled = "Err"
    /\ tokenise(last.src).found = "#"

\* What tokenise returns at the end of an input that stops inside a
\* construct that was opened by `open`
C23_Unclosed(src, closer) ==
    last.src = src =>
        /\ tokenise(src) = TErr("EOF", closer)
        /\ last.compiled = "Err" /\ last.cerr = "TokeniseError"
C23_Pending(src, tokens) ==
    last.src = src => tokenise(src) = TOk(tokens) /\ last.compiled = "Ok"
\* C23: input that ends inside an unclosed call argument list, index bracket
\* or brace block fails with Expectation{found: EOF, expected: the missing
\* closer}: `)` for a call, `]` for an index, `}` for a block; input that
\* ends inside a number or an identifier emits the pending token and succeeds.
C23_EndOfInput ==
    /\ C23_Unclosed("array(1", ")")
    /\ C23_Unclosed("array(1, (2)", ")")
    /\ C23_Unclosed("v.a[0", "]")
    /\ C23_Unclosed("{ 1", "}")
    /\ C23_Pending("12", <<TNumber(Int2Num(12))>>)
    /\ C23_Pending("abc", <<TAccess(<<AName("abc")>>)>>)
\* the part of C23 that the index bracket does not break
C23_CallAndBlock ==
    /\ C23_Unclosed("array(1", ")")
    /\ C23_Unclosed("array(1, (2)", ")")
    /\ C23_Unclosed("v.a[0", ")")
    /\ C23_Unclosed("{ 1", "}")
    /\ C23_Pending("12", <<TNumber(Int2Num(12))>>)
    /\ C23_Pending("abc", <<TAccess(<<AName("abc")>>)>>)

\* a line that ran to the value 1.0 or 0.0
C24_Equal(src, bool) ==
    Ran_(src) => last.tag = "Ok" /\ last.v = Int2Num(IF bool THEN 1 ELSE 0)
\* C24: two Functions are equal exactly when they are the same underlying
\* callable, so `f == f` is 1.0 and a Struct holding f equals itself; two
\* Structs are equal exactly when they have the same keys and equal values.
C24_Identity ==
    /\ C24_Equal("array == array", TRUE)
    /\ C24_Equal("math == math", TRUE)
    /\ C24_Equal("lolz == variable", TRUE)
    /\ C24_Equal("math == lolz", FALSE)
\* the part of C24 that holds: Structs by keys and values, numbers by value
C24_Structs ==
    /\ C24_Equal("lolz == variable", TRUE)
    /\ C24_Equal("math == lolz", FALSE)
    /\ C24_Equal("array == array", FALSE)
    /\ C24_Equal("math == math", FALSE)
    /\ C24_Equal("a == b", feq(last.pre.a, last.pre.b))

\* a line that failed with a FunctionError of the callable
C25_FunctionError(src, message) ==
    Ran_(src) =>
        /\ last.tag = "Err"
        /\ last.err = MolangError("FunctionError", message, Null)
        /\ Untouched
\* C25: a Call step on a Function evaluates the arguments left to right,
\* passes them in source order and makes the result the current value;
\* an error of the callable is the error of the run.
\* `math.max(1, 5, 2) * 100` is 500.
C25_Call ==
    /\ Ran_("math.max(1, 5, 2) * 100") =>
          /\ last.tag = "Ok" /\ last.v = Int2Num(500)
          /\ last.calls = <<[f |-> "max", recv |-> 0,
                             args |-> <<Int2Num(1), Int2Num(5), Int2Num(2)>>]>>
    /\ Ran_("array(v.i = 1, v.i = 2)") =>
          /\ last.tag = "Ok" /\ last.v = External(Len(heap))
          /\ Len(heap) = Len(last.preheap) + 1
          /\ heap[Len(heap)].vec = <<Int2Num(1), Int2Num(2)>>
          /\ Field(variables.variable, "i") = Int2Num(2)
    /\ C25_FunctionError("math.max()", "No arguments passed to max")
    /\ C25_FunctionError("math.max(1, lolz)", "Expected a number")
    /\ Ran_("math.max(v.i = 1, doesnotexist, v.j = 2)") =>
          /\ last.tag = "Err" /\ last.err.kind = "VariableNotFound"
          /\ last.calls = << >>
          /\ Field(variables.variable, "i") = Int2Num(1)
          /\ ~has_key(variables.variable.fields, "j")
C25_Witness ==
    /\ RanOk("array(v.i = 1, v.i = 2)")
    /\ Field(last.pre.variable, "i") = Int2Num(1)
    /\ Field(variables.variable, "i") = Int2Num(2)

\* `v.b.k = 1` has just run, and `v.b = v.s` had run before it on a Struct
\* `v.s` (z is the key `v.s.z = 2` made)
C26_WroteThroughB ==
    /\ RanOk("v.b.k = 1")
    /\ Field(last.pre.variable, "s") = Struct([z |-> Int2Num(2)])
    /\ Field(last.pre.variable, "b") = Field(last.pre.variable, "s")
\* C26: Struct values are shared like External values: after `v.b = v.s`
\* both paths are one Struct, so the write `v.b.k = 1` is visible through
\* `v.s.k`.
C26_Shared ==
    C26_WroteThroughB =>
        /\ Read("v.b.k").v = Int2Num(1)
        /\ Read("v.s.k").v = Int2Num(1)
\* what the evaluator does instead: `v.b` holds a copy, `v.s` keeps its value
C26_Copied ==
    C26_WroteThroughB =>
        /\ Read("v.b.k").v = Int2Num(1)
        /\ Read("v.s.k").v = Null
        /\ Field(variables.variable, "s") = Field(last.pre.variable, "s")

\* How deep a line of SpecNesting nests: the number of its opening brackets
C27_Depth(src) == Cardinality({i \in 1..Len(src) : nth(src, i) = "("})
\* C27: there is a maximum nesting depth (here: one below MaxNesting at
\* most): a source nested deeper fails to compile with a syntax error.
C27_MaxDepth ==
    \E limit \in 1..(MaxNesting - 1) :
        last.compiled # "None" /\ C27_Depth(last.src) > limit =>
            last.compiled = "Err"
\* what compile does instead: every depth compiles and runs, and the lexer
\* has re-lexed the call arguments once per level
RECURSIVE C27_Calls(_)
C27_Calls(tokens) ==
    IF Len(tokens) = 1 /\ tokens[1].t = "Access" /\ Len(tokens[1].accesses) = 2
    THEN 1 + C27_Calls(tokens[1].accesses[2].tokens)
    ELSE 0
C27_Unbounded ==
    last.compiled # "None" =>
        /\ last.compiled = "Ok" /\ last.tag = "Ok"
        /\ nth(last.src, 1) = "a" =>
              C27_Calls(tokenise(last.src).tokens) = C27_Depth(last.src)

\* the key is bound to Null in `variable`, or not bound there at all, so
\* that the step reading it leaves Null as the current value
C28_NullStep(key) == Field(last.pre.variable, key) = Null
\* C28: only the first step of a chain is resolved against the alias table
\* and the environments; a Name step after a step that produced Null reads
\* no alias, no root variable and no constant, and writes no root variable,
\* in a read chain and in an assignment target alike.
C28_FirstStepOnly ==
    /\ Ran_("v.q.pi") /\ C28_NullStep("q") =>
          ~(last.tag = "Ok" /\ last.v = constants.pi)
    /\ Ran_("v.q.v") /\ C28_NullStep("q") =>
          ~(last.tag = "Ok" /\ last.v = last.pre.variable)
    /\ Ran_("v.n.x = 5") /\ C28_NullStep("n")
            /\ has_key(last.pre.variable.fields, "n") =>
          variables.x = last.pre.x
\* what the evaluator does instead: every Name step on Null starts over at
\* the root
C28_EveryStep ==
    /\ Ran_("v.q.pi") /\ C28_NullStep("q") =>
          last.tag = "Ok" /\ last.v = constants.pi
    /\ Ran_("v.q.v") /\ C28_NullStep("q") =>
          last.tag = "Ok" /\ last.v = last.pre.variable
    /\ Ran_("v.n.x = 5") /\ C28_NullStep("n")
            /\ has_key(last.pre.variable.fields, "n") =>
          /\ last.tag = "Ok" /\ variables.x = Int2Num(5)
          /\ variables.variable = last.pre.variable
C28_RootWritten ==
    /\ RanOk("v.n.x = 5") /\ C28_NullStep("n")
    /\ variables.x = Int2Num(5) /\ last.pre.x = Int2Num(1)

\* `v.a.push(3)(4)` has just run on a Vector in `v.a`
C29_CalledTwice ==
    Ran_("v.a.push(3)(4)") /\ C8_Handle(last.pre).kind = "External"
\* C29: a Call step is dispatched as a method only when the step right
\* before it was a Name step on an External: in `v.a.push(3)(4)` push is
\* called once, and the second Call applies to what push returned (Null),
\* which fails with BadAccess `()`.
C29_MethodOnce ==
    C29_CalledTwice =>
        /\ Cardinality(C13_Calls("push", C8_Handle(last.pre))) = 1
        /\ last.tag = "Err"
        /\ last.err = MolangError("BadAccess", "()", Null)
\* what the evaluator does instead: the receiver stays pending and push is
\* called a second time
C29_MethodTwice ==
    C29_CalledTwice =>
        /\ last.tag = "Ok" /\ last.v = Null
        /\ Cardinality(C13_Calls("push", C8_Handle(last.pre))) = 2
        /\ heap[C8_Handle(last.pre).id].vec =
              last.preheap[C8_Handle(last.pre).id].vec \o <<Int2Num(3), Int2Num(4)>>

\* The first statement of the line, run on its own: its value and its flag
C30_Statement(src) ==
    run_expr(compile(src).block.statements[1], Env("lands"),
             [St0 EXCEPT !.variables = last.pre, !.heap = last.preheap])
\* a line that returned value early out of its first statement, with no
\* host call and nothing stored
C30_Returned(src, value) ==
    Ran_(src) =>
        /\ last.tag = "Ok" /\ last.v = value
        /\ last.calls = << >> /\ Untouched
        /\ C30_Statement(src).ret /\ C30_Statement(src).v = value
\* C30: a sub-expression that completes with the early-return flag stops
\* every enclosing instruction at once (arithmetic, Not, Equality,
\* NullishCoalescing, Conditional, call arguments, index expressions, the
\* right side of an assignment): the instruction yields that value with the
\* flag set, evaluates no later operand and stores nothing.  Only Return
\* sets the flag: every other completed instruction reports it as false.
C30_Propagates ==
    /\ C30_Returned("1 + (return 2)", Int2Num(2))
    /\ C30_Returned("(return a) + array(1)", last.pre.a)
    /\ C30_Returned("!(return 2)", Int2Num(2))
    /\ C30_Returned("(return 2) == 1", Int2Num(2))
    /\ C30_Returned("(return 2) ?? 1", Int2Num(2))
    /\ C30_Returned("v.q ?? (return 2)", Int2Num(2))
    /\ C30_Returned("(return 2) ? 1 : 0", Int2Num(2))
    /\ C30_Returned("array(1, return 2, v.t = 1)", Int2Num(2))
    /\ C30_Returned("x = (return 2)", Int2Num(2))
    /\ C30_Returned("(return 2) + 1; v.t = 1;", Int2Num(2))
    /\ Ran_("array(1, 2)[return 0]") =>
          /\ last.tag = "Ok" /\ last.v = Int2Num(0)
          /\ Len(last.calls) = 1 /\ last.calls[1].f = "array"
          /\ C30_Statement(last.src).ret
    /\ Ran_("v.t = (return 2)") =>
          /\ last.tag = "Ok" /\ last.v = Int2Num(2)
          /\ Field(variables.variable, "t") # Int2Num(2)
          /\ C30_Statement(last.src).ret
    /\ Ran_("a ? (return 5) : 0; 9;") =>
          /\ last.tag = "Ok"
          /\ last.v = IF IsZero(last.pre.a) THEN Int2Num(0) ELSE Int2Num(5)
          /\ C30_Statement(last.src).ret = ~IsZero(last.pre.a)
    /\ Ran_("1 + 2; !0; a == b; v.q ?? 1; x = 3; array(1); b ? 2 : 3;") =>
          /\ last.tag = "Ok" /\ last.v = Int2Num(0)
          /\ variables.x = Int2Num(3) /\ Len(last.calls) = 1
          /\ \A k \in 1..7 :
                ~run_expr(compile(last.src).block.statements[k], Env("lands"),
                          [St0 EXCEPT !.variables = last.pre,
                                      !.heap = last.preheap]).ret
C30_Witness ==
    /\ RanOk("(return a) + array(1)")
    /\ last.v = Int2Num(6) /\ last.calls = << >>

\* `v.c = v.d = 1` has just run on a `variable` that held neither key
C31_Chained ==
    /\ Ran_("v.c = v.d = 1")
    /\ ~has_key(last.pre.variable.fields, "c")
    /\ ~has_key(last.pre.variable.fields, "d")
\* `variable` as the claim leaves it: 1 under both keys, the rest as before
C31_Both ==
    /\ last.tag = "Ok" /\ last.v = Int2Num(1)
    /\ variables =
          [last.pre EXCEPT !.variable =
              Struct(map_insert(map_insert(@.fields, "c", Int2Num(1)),
                                "d", Int2Num(1)))]
\* C31: the chained assignment `v.c = v.d = 1` stores 1 under both keys and
\* returns 1: the location resolved for `v.c` still denotes `v.c` after the
\* inner assignment has inserted the key d into the same Struct, and the
\* value is written there and nowhere else.
C31_ChainedAssignment == C31_Chained => C31_Both
\* the part of C31 that holds: the location stays valid unless the insert
\* of d finds the table full
C31_Unmoved ==
    C31_Chained /\ ~hashbrown_resizes(Cardinality(DOMAIN last.pre.variable.fields) + 1)
        => C31_Both /\ ~last.ub
C31_Moved ==
    /\ C31_Chained
    /\ Cardinality(DOMAIN last.pre.variable.fields) = 2
    /\ last.ub /\ last.outcome = "lost"
    /\ last.tag = "Ok" /\ Field(variables.variable, "c") = EmptyStruct

\* the tokens of a line
C32_Lexes(src, tokens) == last.src = src => tokenise(src) = TOk(tokens)
C32_Name(name) == TAccess(<<AName(name)>>)
\* C32: `??` lexes to one NullishCoalescing token and `==` to one Equality
\* token; a lone `?` or `=` lexes to Conditional or Assignment, and the
\* character after it is lexed normally, neither lost nor read twice; at the
\* end of the input the single form is emitted.
C32_Doubles ==
    /\ C32_Lexes("a=1", <<C32_Name("a"), TOperator("Assignment"),
                          TNumber(Int2Num(1))>>)
    /\ C32_Lexes("???", <<TOperator("NullishCoalescing"), TOperator("Conditional")>>)
    /\ C32_Lexes("a ?? 1", <<C32_Name("a"), TOperator("NullishCoalescing"),
                             TNumber(Int2Num(1))>>)
    /\ C32_Lexes("a == 1", <<C32_Name("a"), TOperator("Equality"),
                             TNumber(Int2Num(1))>>)
    /\ C32_Lexes("a ?", <<C32_Name("a"), TOperator("Conditional")>>)
    /\ C32_Lexes("a =", <<C32_Name("a"), TOperator("Assignment")>>)
    /\ C32_Lexes("====", <<TOperator("Equality"), TOperator("Equality")>>)
    /\ C32_Lexes("a?b:c", <<C32_Name("a"), TOperator("Conditional"),
                            C32_Name("b"), TOperator("Colon"), C32_Name("c")>>)
C32_Witness ==
    /\ last.src = "a=1" /\ last.compiled = "Ok"
    /\ Len(tokenise(last.src).tokens) = 3

\* a line that lexes to the given tokens and compiles
C33_Lexes(src, tokens) ==
    last.src = src => tokenise(src) = TOk(tokens) /\ last.compiled = "Ok"
\* a line in which a literal holds a second decimal point
C33_SecondPoint(src) ==
    last.src = src =>
        /\ tokenise(src) = TErr(".", "a digit")
        /\ last.compiled = "Err" /\ last.cerr = "TokeniseError"
\* C33: a numeric literal lexes to exactly one Number token whose value is
\* that of its digits and decimal point with every underscore removed
\* (`1_000` is 1000, `100.0` is 100); a second decimal point in the same
\* literal is a lexical error; the character that ends the literal is
\* lexed as the next token (`100.0*99` is Number, Multiply, Number).
C33_Literal ==
    /\ C33_Lexes("1_000", <<TNumber(Int2Num(1000))>>)
    /\ C33_Lexes("100.0", <<TNumber(Int2Num(100))>>)
    /\ C33_Lexes("007", <<TNumber(Int2Num(7))>>)
    /\ C33_Lexes("0.25", <<TNumber(MkNum(1, 1, 4))>>)
    /\ C33_Lexes("1.", <<TNumber(Int2Num(1))>>)
    /\ C33_Lexes("1_", <<TNumber(Int2Num(1))>>)
    /\ C33_Lexes("1._5", <<TNumber(MkNum(1, 3, 2))>>)
    /\ C33_Lexes("100.0*99", <<TNumber(Int2Num(100)), TOperator("Multiply"),
                               TNumber(Int2Num(99))>>)
    /\ C33_Lexes("1_0.5+2", <<TNumber(MkNum(1, 21, 2)), TOperator("Add"),
                              TNumber(Int2Num(2))>>)
    /\ C33_SecondPoint("1.2.3")
    /\ C33_SecondPoint("1.5.")
C33_Witness ==
    /\ RanOk("1_0.5+2")
    /\ last.v = MkNum(1, 25, 2)

\* the tokens of a line that is lexed without error
C34_Lexes(src, tokens) == last.src = src => tokenise(src) = TOk(tokens)
C34_One == TNumber(Int2Num(1))
\* C34: an access chain lexes to exactly one Access token whose steps are in
\* source order: one Name per identifier, one Call holding the tokens lexed
\* between its balanced parentheses, one Index likewise for balanced
\* brackets; nested parentheses inside a call stay inside that call.
\* `math.sin(1)` is [Name math, Name sin, Call [Number 1]].
C34_Chain ==
    /\ C34_Lexes("math.sin(1)",
                 <<TAccess(<<AName("math"), AName("sin"), ACall(<<C34_One>>)>>)>>)
    /\ C34_Lexes("a.b.c", <<TAccess(<<AName("a"), AName("b"), AName("c")>>)>>)
    /\ C34_Lexes("a_b.c1", <<TAccess(<<AName("a_b"), AName("c1")>>)>>)
    /\ C34_Lexes("f()", <<TAccess(<<AName("f"), ACall(<< >>)>>)>>)
    /\ C34_Lexes("f((1), 2)",
                 <<TAccess(<<AName("f"),
                             ACall(<<TOpenBracket, C34_One, TCloseBracket, TComma,
                                     TNumber(Int2Num(2))>>)>>)>>)
    /\ C34_Lexes("v.a[b[0]].c",
                 <<TAccess(<<AName("v"), AName("a"),
                             AIndex(<<TAccess(<<AName("b"),
                                                AIndex(<<TNumber(Int2Num(0))>>)>>)>>),
                             AName("c")>>)>>)
    /\ C34_Lexes("f(b[1])(2)",
                 <<TAccess(<<AName("f"),
                             ACall(<<TAccess(<<AName("b"), AIndex(<<C34_One>>)>>)>>),
                             ACall(<<TNumber(Int2Num(2))>>)>>)>>)
    /\ C34_Lexes("f(g(1)) + 1",
                 <<TAccess(<<AName("f"),
                             ACall(<<TAccess(<<AName("g"), ACall(<<C34_One>>)>>)>>)>>),
                   TOperator("Add"), C34_One>>)
C34_Witness ==
    /\ last.src = "f((1), 2)" /\ last.compiled = "Ok"
    /\ Len(tokenise(last.src).tokens) = 1
    /\ Len(tokenise(last.src).tokens[1].accesses[2].tokens) = 5

\* a line that failed with NotAssignable
C35_Refused(src) ==
    Ran_(src) => last.tag = "Err" /\ last.err.kind = "NotAssignable"
C35_RefusedAll ==
    /\ \A src \in {"1 = 2", "a + b = 3", "1 = (v.t = 2)", "x(1) = 2",
                    "array(1) = 2"} :
           C35_Refused(src) /\ (Ran_(src) => Untouched /\ last.calls = << >>)
    /\ C35_Refused("v.f(1) = 2")
    /\ Ran_("v.f(1) = 2") =>
           variables = [last.pre EXCEPT !.variable = Struct([f |-> EmptyStruct])]

\* a line that compiled and failed at run time with a SyntaxError, leaving
\* everything as it was
C36_SyntaxError(src, message) ==
    last.src = src =>
        /\ last.compiled = "Ok"
        /\ last.tag = "Err"
        /\ last.err = MolangError("SyntaxError", message, Null)
        /\ Untouched
\* C36: the shape of a ternary is checked when it runs, not when it is
\* compiled: `a ? 1` without a colon compiles and fails with SyntaxError
\* when run; a Colon that is not the direct right side of a Conditional
\* (`1 : 2`, inside `a ? b ? 1 : 2 : 3`, the second one of `a ? 1 : 2 : 3`)
\* fails with SyntaxError when it is evaluated; neither returns a value.
C36_Ternary ==
    /\ C36_SyntaxError("a ? 1", "Expected colon to close terenary")
    /\ C36_SyntaxError("a ? (v.t = 1)", "Expected colon to close terenary")
    /\ C36_SyntaxError("1 : 2", "Unexpected colon")
    /\ C36_SyntaxError("a ? b ? 1 : 2 : 3", "Expected colon to close terenary")
    /\ last.src = "a ? 1 : 2 : 3" =>
          IF takes_if_true(last.pre.a)
          THEN RanOk(last.src) /\ last.v = Int2Num(1)
          ELSE C36_SyntaxError(last.src, "Unexpected colon")
C36_Witness ==
    /\ last.src = "a ? b ? 1 : 2 : 3" /\ last.compiled = "Ok"
    /\ last.tag = "Err" /\ last.err.kind = "SyntaxError"
    /\ last.pre.a = Int2Num(6)

\* a line that failed with BadAccess on the given value, before any call
C37_Refused(src, how, current) ==
    Ran_(src) =>
        /\ last.tag = "Err"
        /\ last.err = MolangError("BadAccess", how, current)
        /\ last.calls = << >> /\ Untouched
\* C37: in a read, a Name step on a Number or a Function, an Index step on
\* anything but an External, and a Call step without pending receiver on
\* anything but a Function fail with BadAccess carrying `.`, `[]` or `()`;
\* no later step of the chain, and no argument or index expression of the
\* failing step, is evaluated.
C37_BadAccess ==
    /\ C37_Refused("a.x", ".", last.pre.a)
    /\ C37_Refused("array.x", ".", constants.array)
    /\ C37_Refused("math.max.x.y", ".", Function("max"))
    /\ C37_Refused("a.x(array(1))", ".", last.pre.a)
    /\ C37_Refused("a[0]", "[]", last.pre.a)
    /\ C37_Refused("array[0]", "[]", constants.array)
    /\ C37_Refused("lolz[array(1)]", "[]", EmptyStruct)
    /\ C37_Refused("v.q[0]", "[]", Null)
    /\ C37_Refused("a(array(1))", "()", last.pre.a)
    /\ C37_Refused("lolz(1)", "()", EmptyStruct)
    /\ C37_Refused("v.q(1)", "()", Null)
C37_Witness ==
    /\ Ran_("lolz[array(1)]") /\ last.tag = "Err"
    /\ last.err.name = "[]" /\ last.calls = << >>

\* An expression with no assignment and no Call step anywhere in it
RECURSIVE C38_Reads(_)
C38_Reads(expr) ==
    \/ expr.e = "Literal"
    \/ /\ expr.e = "Derived"
       /\ CASE expr.i.op = "Access" ->
                  \A k \in DOMAIN expr.i.accesses :
                      \/ expr.i.accesses[k].a = "Name"
                      \/ /\ expr.i.accesses[k].a = "Index"
                         /\ C38_Reads(expr.i.accesses[k].idx)
            [] expr.i.op = "Assignment" -> FALSE
            [] expr.i.op \in {"Not", "Return"} -> C38_Reads(expr.i.x)
            [] OTHER -> C38_Reads(expr.i.l) /\ C38_Reads(expr.i.r)
\* The line last run was a block of such expressions
C38_ReadOnly ==
    /\ last.compiled = "Ok"
    /\ LET block == compile(last.src).block
       IN  \A k \in DOMAIN block.statements : C38_Reads(block.statements[k])
\* The line read a key the Struct at the end of its path did not hold
C38_Missing ==
    \/ Ran_("v.x") /\ ~has_key(last.pre.variable.fields, "x")
    \/ Ran_("variable.x") /\ ~has_key(last.pre.variable.fields, "x")
    \/ /\ Ran_("lolz.nested.missing")
       /\ Field(last.pre.lolz, "nested").kind = "Struct"
       /\ ~has_key(Field(last.pre.lolz, "nested").fields, "missing")
\* C38: a block with no assignment and no call of a host function or method
\* leaves the variables as they were, whether it ends in a value, an error
\* or a return; a read of a key a Struct does not hold gives Null and the
\* Struct does not hold the key afterwards.
C38_Frame ==
    /\ C38_ReadOnly => Untouched /\ last.calls = << >>
    /\ C38_Missing => last.tag = "Ok" /\ last.v = Null /\ Untouched
C38_Witness ==
    /\ Ran_("lolz.nested.missing") /\ C38_ReadOnly /\ C38_Missing
    /\ has_key(Field(variables.lolz, "nested").fields, "property")
    /\ last.v = Null
C38_FailedRead ==
    /\ Ran_("v.m == lolz.n; !v.a[0]; v.q.z") /\ C38_ReadOnly
    /\ last.tag = "Err" /\ has_key(variables.variable.fields, "a")

\* C39: the lexer discards nothing when it recognises `return`: the
\* operator replaces an access chain only when the chain is the single name
\* `return`, so `1; return (5);` evaluates to 5 just as `1; return 5;` does.
C39_ReturnKeepsOperand ==
    last.src \in {"1; return (5);", "1; return 5;"} =>
        last.compiled = "Ok" /\ last.tag = "Ok" /\ last.v = Int2Num(5)
\* What the lexer does: a chain whose FIRST step is the name `return` becomes
\* the operator and the steps after it are gone from the token list
C39_Dropped ==
    /\ last.src = "1; return 5;" =>
          /\ tokenise(last.src).tokens =
                <<TNumber(Int2Num(1)), TSemicolon, TOperator("Return"),
                  TNumber(Int2Num(5)), TSemicolon>>
          /\ RanOk(last.src) /\ last.v = Int2Num(5)
    /\ last.src \in {"1; return (5);", "1; return[0];"} =>
          /\ tokenise(last.src).tokens =
                <<TNumber(Int2Num(1)), TSemicolon, TOperator("Return"),
                  TSemicolon>>
          /\ last.compiled = "Err" /\ last.tag = "None"
    /\ last.src = "1; return(5)" =>
          /\ tokenise(last.src).tokens =
                <<TNumber(Int2Num(1)), TSemicolon, TOperator("Return")>>
          /\ last.compiled = "Err"
    /\ last.src = "return.a + 1" =>
          tokenise(last.src).tokens =
              <<TOperator("Return"), TOperator("Add"), TNumber(Int2Num(1))>>
    /\ last.src = "returns (5)" =>
          tokenise(last.src).tokens =
              <<TAccess(<<AName("returns"), ACall(<<TNumber(Int2Num(5))>>)>>)>>
C39_Lexed == last.src = "1; return (5);" /\ last.compiled = "Err"

\* C40: tokenise terminates on every finite input.  A turn that holds the
\* character is followed by at most one more hold before a turn that
\* advances, finishes or fails; every turn that goes on either moves the
\* position forward by one or holds it; the position never passes the end
\* of the input, where no state advances; and the loop ends.
C40_Bounded ==
    /\ lexer.holds <= 2
    /\ lexer.cfg.i <= Len(lexer.input) + 1
C40_Progress ==
    lexer.cfg.res = "Run" /\ lexer'.cfg.res = "Run" =>
        \/ lexer'.cfg.i = lexer.cfg.i + 1 /\ lexer'.holds = 0
        \/ lexer'.cfg.i = lexer.cfg.i /\ lexer'.holds = lexer.holds + 1
C40_Ended == lexer.cfg.res \in {"Ok", "Err", "Panic"}
C40_Terminates ==
    /\ []C40_Bounded
    /\ [][C40_Progress]_lexer
    /\ (lexer.cfg.res = "Run") ~> C40_Ended
\* The whole of `v.a[b[0]].c` lexed to its end, where the end of input was held twice (by the identifier and by
\* the access chain) before the Normal state finished
C40_Witness ==
    /\ lexer.input = "v.a[b[0]].c" /\ lexer.cfg.res = "Ok"
    /\ lexer.cfg.i = Len(lexer.input) + 1
    /\ lexer.most = 2
    /\ tokenise(lexer.input) = TOk(lexer.cfg.tokens)

=============================================================================
